---- MODULE Spec2Model ----
(***************************************************************************)
(* Custom-functions metadata extraction (parseTree and its helpers).       *)
(*                                                                         *)
(* The syntax tree handed over by the TypeScript parser is the input: a    *)
(* source file is the sequence of its declaration nodes in traversal       *)
(* order.  Text (identifiers, type names, tag names, tag comments, emitted *)
(* type strings) is a sequence of one-character strings, so that           *)
(* upper-casing, case-insensitive comparison, splitting, the id/name       *)
(* regular expressions and the length limit are computed, not assumed.     *)
(* An emitted JSON object is a function whose domain is the set of fields  *)
(* that are present; deleting a field removes it from the domain.          *)
(* A diagnostic is [code, arg]: the message template and the text it       *)
(* interpolates; the rendered "(line,column)" suffix is left out.          *)
(***************************************************************************)
EXTENDS Integers, Sequences, FiniteSets, TLC

VARIABLES
  sourceFile,             \* the declarations of the file, in traversal order
  pc,                     \* the pass parseTree is in
  idx,                    \* the next node the current pass visits
  basicEnums,             \* names of enums without @customenum
  customEnums,            \* emitted enums
  functionNames,          \* declared names of all top-level functions seen
  metadataFunctionNames,  \* names of the custom functions seen
  metadataFunctionIds,    \* ids of the custom functions seen
  metadataEnumIds,        \* ids of the custom enums seen
  associate,              \* association table
  functions,              \* emitted function records
  extras,                 \* per-declaration diagnostics
  references,             \* load-object-before-read: the references visited
  refIdx,                 \* the next reference forEach visits
  getFound,               \* the variable holds the result of a get function
  loadLocation,           \* property name -> end of the reference that loaded it
  reports                 \* what context.report was called with

parseVars == <<sourceFile, pc, idx, basicEnums, customEnums, functionNames,
               metadataFunctionNames, metadataFunctionIds, metadataEnumIds,
               associate, functions, extras>>

ruleVars == <<references, refIdx, getFound, loadLocation, reports>>

vars == <<parseVars, ruleVars>>

-----------------------------------------------------------------------------
(* Text *)

LowerAlpha == <<"a","b","c","d","e","f","g","h","i","j","k","l","m",
                "n","o","p","q","r","s","t","u","v","w","x","y","z">>
UpperAlpha == <<"A","B","C","D","E","F","G","H","I","J","K","L","M",
                "N","O","P","Q","R","S","T","U","V","W","X","Y","Z">>
Digits == {"0","1","2","3","4","5","6","7","8","9"}

Range(s) == {s[i] : i \in DOMAIN s}
IsLetter(c) == c \in Range(LowerAlpha) \cup Range(UpperAlpha)

ToUpperChar(c) ==
  IF \E i \in DOMAIN LowerAlpha : LowerAlpha[i] = c
  THEN UpperAlpha[CHOOSE i \in DOMAIN LowerAlpha : LowerAlpha[i] = c]
  ELSE c

ToLowerChar(c) ==
  IF \E i \in DOMAIN UpperAlpha : UpperAlpha[i] = c
  THEN LowerAlpha[CHOOSE i \in DOMAIN UpperAlpha : UpperAlpha[i] = c]
  ELSE c

toLocaleUpperCase(s) == [i \in DOMAIN s |-> ToUpperChar(s[i])]
toLocaleLowerCase(s) == [i \in DOMAIN s |-> ToLowerChar(s[i])]

\* s.indexOf(c), one-based; 0 when c does not occur
IndexOf(s, c) ==
  IF \E i \in DOMAIN s : s[i] = c
  THEN CHOOSE i \in DOMAIN s : s[i] = c /\ \A j \in 1..(i - 1) : s[j] # c
  ELSE 0

\* s.split(c)
RECURSIVE Split(_, _)
Split(s, c) ==
  LET i == IndexOf(s, c)
  IN IF i = 0 THEN <<s>>
     ELSE <<SubSeq(s, 1, i - 1)>> \o Split(SubSeq(s, i + 1, Len(s)), c)

\* the string of n copies of c
Rep(c, n) == [i \in 1..n |-> c]

\* the value a missing property or table entry reads as
Undefined == <<"undefined">>

\* JavaScript truthiness of a string-or-undefined value
Truthy(s) == s # Undefined /\ s # <<>>

-----------------------------------------------------------------------------
(* String constants of the program *)

S_any == <<"a","n","y">>
S_number == <<"n","u","m","b","e","r">>
S_string == <<"s","t","r","i","n","g">>
S_boolean == <<"b","o","o","l","e","a","n">>
S_scalar == <<"s","c","a","l","a","r">>
S_matrix == <<"m","a","t","r","i","x">>
S_unsupported == <<"u","n","s","u","p","p","o","r","t","e","d">>
S_Array == <<"A","r","r","a","y">>
S_Promise == <<"P","r","o","m","i","s","e">>
S_Excel == <<"E","x","c","e","l",".">>
S_CustomFunctions == <<"C","u","s","t","o","m","F","u","n","c","t","i","o","n","s",".">>
S_CellValue == <<"C","e","l","l","V","a","l","u","e">>

CANCELABLE == <<"c","a","n","c","e","l","a","b","l","e">>
CAPTURESCALLINGOBJECT ==
  <<"c","a","p","t","u","r","e","s","c","a","l","l","i","n","g","o","b","j","e","c","t">>
CUSTOM_ENUM == <<"c","u","s","t","o","m","e","n","u","m">>
CUSTOM_FUNCTION == <<"c","u","s","t","o","m","f","u","n","c","t","i","o","n">>
EXCLUDEFROMAUTOCOMPLETE ==
  <<"e","x","c","l","u","d","e","f","r","o","m","a","u","t","o","c","o","m","p","l","e","t","e">>
HELPURL_PARAM == <<"h","e","l","p","u","r","l">>
LINKEDENTITYLOADSERVICE ==
  <<"l","i","n","k","e","d","e","n","t","i","t","y","l","o","a","d","s","e","r","v","i","c","e">>
REQUIRESADDRESS == <<"r","e","q","u","i","r","e","s","a","d","d","r","e","s","s">>
REQUIRESPARAMETERADDRESSES ==
  <<"r","e","q","u","i","r","e","s","p","a","r","a","m","e","t","e","r",
    "a","d","d","r","e","s","s","e","s">>
STREAMING == <<"s","t","r","e","a","m","i","n","g">>
VOLATILE == <<"v","o","l","a","t","i","l","e">>

StreamingHandlerName ==
  S_CustomFunctions \o <<"S","t","r","e","a","m","i","n","g","H","a","n","d","l","e","r">>
StreamingInvocationName ==
  S_CustomFunctions \o <<"S","t","r","e","a","m","i","n","g","I","n","v","o","c","a","t","i","o","n">>
OldStreamingHandlerName ==
  <<"I","S","t","r","e","a","m","i","n","g","C","u","s","t","o","m",
    "F","u","n","c","t","i","o","n","H","a","n","d","l","e","r">>
CancelableHandlerName ==
  S_CustomFunctions \o <<"C","a","n","c","e","l","a","b","l","e","H","a","n","d","l","e","r">>
CancelableInvocationName ==
  S_CustomFunctions \o <<"C","a","n","c","e","l","a","b","l","e","I","n","v","o","c","a","t","i","o","n">>
InvocationName == S_CustomFunctions \o <<"I","n","v","o","c","a","t","i","o","n">>

TYPE_CUSTOM_FUNCTIONS_STREAMING ==
  {toLocaleLowerCase(StreamingHandlerName), toLocaleLowerCase(StreamingInvocationName)}
TYPE_CUSTOM_FUNCTION_CANCELABLE ==
  {toLocaleLowerCase(CancelableHandlerName), toLocaleLowerCase(CancelableInvocationName)}
TYPE_CUSTOM_FUNCTION_INVOCATION == toLocaleLowerCase(InvocationName)

\* variant: every kind the table lacks is "any"
TYPE_MAPPINGS_RestAny(kind) ==
  CASE kind = "NumberKeyword" -> S_number
    [] kind = "StringKeyword" -> S_string
    [] kind = "BooleanKeyword" -> S_boolean
    [] OTHER -> S_any

\* type-node kind -> type string; Undefined for a kind the table lacks
TYPE_MAPPINGS(kind) ==
  CASE kind = "NumberKeyword" -> S_number
    [] kind = "StringKeyword" -> S_string
    [] kind = "BooleanKeyword" -> S_boolean
    [] kind \in {"AnyKeyword", "UnionType", "TupleType", "EnumKeyword",
                 "ObjectKeyword", "VoidKeyword", "UnknownKeyword"} -> S_any
    [] OTHER -> Undefined

\* the variants "Excel.<X>CellValue" the table names, by their prefix X
SupportedCellValuePrefixes ==
  { <<>>,
    <<"B","o","o","l","e","a","n">>,
    <<"D","o","u","b","l","e">>,
    <<"E","n","t","i","t","y">>,
    <<"E","r","r","o","r">>,
    <<"F","o","r","m","a","t","t","e","d","N","u","m","b","e","r">>,
    <<"L","i","n","k","e","d","E","n","t","i","t","y">>,
    <<"L","o","c","a","l","I","m","a","g","e">>,
    <<"S","t","r","i","n","g">>,
    <<"W","e","b","I","m","a","g","e">> }
UnsupportedCellValuePrefixes ==
  { <<"A","r","r","a","y">>,
    <<"E","m","p","t","y">>,
    <<"R","e","f","e","r","e","n","c","e">>,
    <<"V","a","l","u","e","T","y","p","e","N","o","t","A","v","a","i","l","a","b","l","e">> }

CellValueName(prefix) == S_Excel \o prefix \o S_CellValue

\* type name -> cell value variant; Undefined for a name the table lacks
CELLVALUETYPE_MAPPINGS(name) ==
  IF \E p \in SupportedCellValuePrefixes : name = CellValueName(p)
  THEN toLocaleLowerCase(
         (CHOOSE p \in SupportedCellValuePrefixes : name = CellValueName(p))
         \o S_CellValue)
  ELSE IF \E p \in UnsupportedCellValuePrefixes : name = CellValueName(p)
  THEN S_unsupported
  ELSE Undefined

\* Object.values(CELLVALUETYPE_MAPPINGS)
CellValueTypeValues ==
  {toLocaleLowerCase(p \o S_CellValue) : p \in SupportedCellValuePrefixes}
  \cup {S_unsupported}

CELLVALUETYPE_TO_BASICTYPE_MAPPINGS(cellValue) ==
  CASE cellValue = toLocaleLowerCase(<<"B","o","o","l","e","a","n">> \o S_CellValue)
         -> S_boolean
    [] cellValue \in
         {toLocaleLowerCase(<<"D","o","u","b","l","e">> \o S_CellValue),
          toLocaleLowerCase(<<"F","o","r","m","a","t","t","e","d","N","u","m","b","e","r">>
                            \o S_CellValue)}
         -> S_number
    [] cellValue = toLocaleLowerCase(<<"S","t","r","i","n","g">> \o S_CellValue)
         -> S_string
    [] OTHER -> S_any

-----------------------------------------------------------------------------
(* Type nodes, as the parser hands them over *)

NoType == [kind |-> "None"]    \* no type node (undefined)
KeywordType(k) == [kind |-> k]
ArrayTypeNode(t) == [kind |-> "ArrayType", elementType |-> t]
TypeReferenceNode(name, args) ==
  [kind |-> "TypeReference", typeName |-> name, typeArguments |-> args]

isArrayTypeNode(node) == node.kind = "ArrayType"
isTypeReferenceNode(node) == node.kind = "TypeReference"

Error(code, arg) == [code |-> code, arg |-> arg]

typeNodeIsArray(node) ==
  IF isArrayTypeNode(node) THEN TRUE
  ELSE IF isTypeReferenceNode(node) THEN node.typeName = S_Array
  ELSE FALSE

\* the while loop over elementType, entered with the count so far
RECURSIVE ArrayTypeNodeLoop(_, _)
ArrayTypeNodeLoop(nodeCheck, dimensionality) ==
  IF isArrayTypeNode(nodeCheck)
  THEN ArrayTypeNodeLoop(nodeCheck.elementType, dimensionality + 1)
  ELSE [dimensionality |-> dimensionality, node |-> nodeCheck]

getArrayDimensionalityAndTypeForArrayTypeNode(node) ==
  ArrayTypeNodeLoop(node.elementType, 1)

\* the while loop over typeArguments[0], entered with the count so far
RECURSIVE ReferenceNodeLoop(_, _)
ReferenceNodeLoop(nodeCheck, dimensionalityCount) ==
  IF /\ isTypeReferenceNode(nodeCheck)
     /\ nodeCheck.typeName = S_Array
     /\ Len(nodeCheck.typeArguments) = 1
  THEN ReferenceNodeLoop(nodeCheck.typeArguments[1], dimensionalityCount + 1)
  ELSE [dimensionality |-> dimensionalityCount, node |-> nodeCheck]

getArrayDimensionalityAndTypeForReferenceNode(node) == ReferenceNodeLoop(node, 0)

getArrayDimensionalityAndType(node) ==
  IF isArrayTypeNode(node) THEN getArrayDimensionalityAndTypeForArrayTypeNode(node)
  ELSE IF isTypeReferenceNode(node)
  THEN getArrayDimensionalityAndTypeForReferenceNode(node)
  ELSE [dimensionality |-> 0, node |-> node]

\* variant: a single array wrapper already counted as a matrix
getParamDimFromOne(t) ==
  IF /\ t # NoType
     /\ isTypeReferenceNode(t) \/ isArrayTypeNode(t)
     /\ getArrayDimensionalityAndType(t).dimensionality >= 1
  THEN S_matrix
  ELSE S_scalar

getParamDim(t) ==
  IF /\ t # NoType
     /\ isTypeReferenceNode(t) \/ isArrayTypeNode(t)
     /\ getArrayDimensionalityAndType(t).dimensionality > 1
  THEN S_matrix
  ELSE S_scalar

isRepeatingParameter(type) ==
  /\ type # NoType
  /\ isTypeReferenceNode(type) \/ isArrayTypeNode(type)
  /\ getArrayDimensionalityAndType(type).dimensionality \in {1, 3}

\* the node getParamType resolves: the inner type node of an array
StripArray(node) ==
  IF typeNodeIsArray(node) THEN getArrayDimensionalityAndType(node).node ELSE node

\* a cell value reference, given its entry in CELLVALUETYPE_MAPPINGS
ResolveCellValue(cellValue, nodeTypeName) ==
  IF cellValue # Undefined
  THEN IF cellValue = S_unsupported
       THEN [ptype |-> [type |-> S_any],
             errors |-> <<Error("UnsupportedCellValueType", nodeTypeName)>>]
       ELSE [ptype |-> [type |-> CELLVALUETYPE_TO_BASICTYPE_MAPPINGS(cellValue),
                        cellValueType |-> cellValue],
             errors |-> <<>>]
  ELSE [ptype |-> [type |-> S_any],
        errors |-> <<Error("UnsupportedType", nodeTypeName)>>]

\* variant: no custom enum is found
NoEnumHits(customEnumList, nodeTypeName) == {}

\* the indexes of the custom enums of that id
EnumHits(customEnumList, nodeTypeName) ==
  {i \in DOMAIN customEnumList : customEnumList[i].id = nodeTypeName}

\* a custom enum reference, given the indexes of the enums of that name
ResolveCustomEnum(hits, customEnumList, nodeTypeName) ==
  [ptype |-> [type |-> customEnumList[CHOOSE i \in hits : \A j \in hits : i <= j].type,
              customEnumType |-> nodeTypeName],
   errors |-> <<>>]

\* a type reference node, by its name
ResolveReference(nodeTypeName, basicEnumList, customEnumList) ==
  IF \E i \in DOMAIN basicEnumList : basicEnumList[i] = nodeTypeName
  THEN [ptype |-> [type |-> S_any], errors |-> <<>>]
  ELSE IF EnumHits(customEnumList, nodeTypeName) # {}
  THEN ResolveCustomEnum(EnumHits(customEnumList, nodeTypeName), customEnumList,
                         nodeTypeName)
  ELSE ResolveCellValue(CELLVALUETYPE_MAPPINGS(nodeTypeName), nodeTypeName)

\* any other node, given its entry in TYPE_MAPPINGS
ResolveKind(type) ==
  [ptype |-> [type |-> type],
   errors |-> IF Truthy(type) THEN <<>>
              ELSE <<Error("TypeDoesntMatchMappings", <<>>)>>]

\* the stripped node
ResolveNode(node, basicEnumList, customEnumList) ==
  IF isTypeReferenceNode(node)
  THEN ResolveReference(node.typeName, basicEnumList, customEnumList)
  ELSE ResolveKind(TYPE_MAPPINGS(node.kind))

\* getParamType returns [ptype, errors]: the IParameterType and what it
\* pushed on extra.errors
getParamType(node, basicEnumList, customEnumList) ==
  IF node = NoType THEN [ptype |-> [type |-> S_any], errors |-> <<>>]
  ELSE ResolveNode(StripArray(node), basicEnumList, customEnumList)

-----------------------------------------------------------------------------
(* Doc comments.  A declaration carries `tags` (its JSDoc tags other than  *)
(* @param, each [tagName, comment]) and, for a function, `paramTags` (its  *)
(* @param tags, each [name, typeExpression, isBracketed, comment]).        *)

containsTag(tag, tagName) == toLocaleLowerCase(tag.tagName) = tagName

hasTag(node, tagName) == \E i \in DOMAIN node.tags : containsTag(node.tags[i], tagName)

\* the first tag of that name; called only when hasTag
findTag(node, tagName) ==
  node.tags[CHOOSE i \in DOMAIN node.tags :
              /\ containsTag(node.tags[i], tagName)
              /\ \A j \in 1..(i - 1) : ~containsTag(node.tags[j], tagName)]

getTagComment(node, tagName) ==
  IF hasTag(node, tagName) THEN findTag(node, tagName).comment ELSE <<>>

isCustomFunction(node) == hasTag(node, CUSTOM_FUNCTION)
isCustomEnum(node) == hasTag(node, CUSTOM_ENUM)
isVolatile(node) == hasTag(node, VOLATILE)
isAddressRequired(node) == hasTag(node, REQUIRESADDRESS)
isRequiresParameterAddresses(node) == hasTag(node, REQUIRESPARAMETERADDRESSES)
isExcludedFromAutoComplete(node) == hasTag(node, EXCLUDEFROMAUTOCOMPLETE)
isLinkedEntityLoadService(node) == hasTag(node, LINKEDENTITYLOADSERVICE)
capturesCallingObject(node) == hasTag(node, CAPTURESCALLINGOBJECT)
isStreaming(node, streamFunction) == streamFunction \/ hasTag(node, STREAMING)
isCancelableTag(node, cancelableFunction) == cancelableFunction \/ hasTag(node, CANCELABLE)

\* s.trim(), for the blank
RECURSIVE TrimLeft(_)
TrimLeft(s) == IF s # <<>> /\ Head(s) = " " THEN TrimLeft(Tail(s)) ELSE s
RECURSIVE TrimRight(_)
TrimRight(s) ==
  IF s # <<>> /\ s[Len(s)] = " " THEN TrimRight(SubSeq(s, 1, Len(s) - 1)) ELSE s
Trim(s) == TrimRight(TrimLeft(s))

\* text.replace(/\r\n|\r/g, "\n")
\* (every "\r" becomes "\n", and the "\n" that follows a "\r" goes with it)
LineFeedOfPair(s, i) == s[i] = "\n" /\ i > 1 /\ s[i - 1] = "\r"
ReplaceLineEndings(s) ==
  LET kept == SelectSeq([i \in 1..Len(s) |-> i], LAMBDA i : ~LineFeedOfPair(s, i))
  IN [k \in DOMAIN kept |-> IF s[kept[k]] = "\r" THEN "\n" ELSE s[kept[k]]]

normalizeLineEndings(text) == IF Truthy(text) THEN ReplaceLineEndings(text) ELSE text

\* node.jsDoc[0].comment
getDescription(node) == normalizeLineEndings(node.jsDocComment)

\* the last @param tag naming `name` (a later assignment overwrites), or 0
LastParamTag(node, name) ==
  LET hits == {i \in DOMAIN node.paramTags : node.paramTags[i].name = name}
  IN IF hits = {} THEN 0 ELSE CHOOSE i \in hits : \A j \in hits : j <= i

\* getJSDocParams(node)[name]
getJSDocParams(node, name) ==
  LET i == LastParamTag(node, name)
  IN IF i = 0 THEN Undefined
     ELSE LET tagComment == node.paramTags[i].comment
          IN IF tagComment # <<>>
             THEN Trim(IF Head(tagComment) = "-" THEN Tail(tagComment) ELSE tagComment)
             ELSE <<>>

\* the number of occurrences of c in s
RECURSIVE Count(_, _)
Count(s, c) ==
  IF s = <<>> THEN 0 ELSE (IF Head(s) = c THEN 1 ELSE 0) + Count(Tail(s), c)

\* variant: matrix for exactly one bracket, scalar otherwise
JsDocParamTypeOfOneIsMatrix(tag) ==
  IF tag.typeExpression = Undefined
  THEN [type |-> S_any, returnType |-> Undefined, dimensionality |-> Undefined]
  ELSE
    LET fullText == tag.typeExpression
        paramType == SubSeq(fullText, 2, Len(fullText) - 1)
        openBracket == IndexOf(paramType, "<")
        subType == SubSeq(paramType, openBracket + 1, Len(paramType) - 1)
        dimCount == Count(subType, "[")
    IN IF openBracket > 0
       THEN [type |-> SubSeq(paramType, 1, openBracket - 1),
             returnType |-> IF dimCount > 0
                            THEN SubSeq(subType, 1, IndexOf(subType, "[") - 1)
                            ELSE subType,
             dimensionality |-> IF dimCount = 1 THEN S_matrix ELSE S_scalar]
       ELSE [type |-> paramType, returnType |-> Undefined, dimensionality |-> Undefined]

\* the IJsDocParamType built from one @param tag
JsDocParamTypeOf(tag) ==
  IF tag.typeExpression = Undefined
  THEN [type |-> S_any, returnType |-> Undefined, dimensionality |-> Undefined]
  ELSE
    LET fullText == tag.typeExpression
        paramType == SubSeq(fullText, 2, Len(fullText) - 1)
        openBracket == IndexOf(paramType, "<")    \* one-based, 0 when absent
        subType == SubSeq(paramType, openBracket + 1, Len(paramType) - 1)
        dimCount == Count(subType, "[")
    IN IF openBracket > 0
       THEN IF dimCount > 0
            THEN [type |-> SubSeq(paramType, 1, openBracket - 1),
                  returnType |-> SubSeq(subType, 1, IndexOf(subType, "[") - 1),
                  dimensionality |-> IF dimCount = 1 THEN S_scalar ELSE S_matrix]
            ELSE [type |-> SubSeq(paramType, 1, openBracket - 1),
                  returnType |-> subType,
                  dimensionality |-> Undefined]
       ELSE [type |-> paramType, returnType |-> Undefined, dimensionality |-> Undefined]

\* whether getJSDocParamsType(node) has an entry for `name`
HasJsDocParam(node, name) == LastParamTag(node, name) # 0

\* getJSDocParamsType(node)[name]; called only when HasJsDocParam
getJSDocParamsType(node, name) == JsDocParamTypeOf(node.paramTags[LastParamTag(node, name)])

\* getJSDocParamsOptionalType(node)[name], as the truth value it is tested for
getJSDocParamsOptionalType(node, name) ==
  LET i == LastParamTag(node, name)
  IN IF i = 0 THEN FALSE ELSE node.paramTags[i].isBracketed

getParamOptional(p, node) ==
  IF p.isOptional THEN TRUE ELSE getJSDocParamsOptionalType(node, p.name)

-----------------------------------------------------------------------------
(* The role of the last parameter.  `param` is NoParam when the function   *)
(* has no parameter.                                                       *)

NoParam == [name |-> Undefined, type |-> NoType, jsDocType |-> NoType, isOptional |-> FALSE]

\* jsDocParamTypeInfo[name].type, lower-cased, when the entry and its type exist
DocTypeLower(param, node) ==
  IF /\ param # NoParam
     /\ Truthy(param.name)
     /\ HasJsDocParam(node, param.name)
     /\ Truthy(getJSDocParamsType(node, param.name).type)
  THEN toLocaleLowerCase(getJSDocParamsType(node, param.name).type)
  ELSE Undefined

hasStreamingInvocationParameter(param, node) ==
  IF DocTypeLower(param, node) \in TYPE_CUSTOM_FUNCTIONS_STREAMING THEN TRUE
  ELSE IF ~(param # NoParam /\ param.type # NoType /\ isTypeReferenceNode(param.type))
  THEN FALSE
  ELSE param.type.typeName \in
         {StreamingInvocationName, StreamingHandlerName, OldStreamingHandlerName}

hasCancelableInvocationParameter(param, node) ==
  IF DocTypeLower(param, node) \in TYPE_CUSTOM_FUNCTION_CANCELABLE THEN TRUE
  ELSE IF ~(param # NoParam /\ param.type # NoType /\ isTypeReferenceNode(param.type))
  THEN FALSE
  ELSE param.type.typeName \in {CancelableHandlerName, CancelableInvocationName}

hasInvocationParameter(param, node) ==
  IF DocTypeLower(param, node) = TYPE_CUSTOM_FUNCTION_INVOCATION THEN TRUE
  ELSE IF ~(param # NoParam /\ param.type # NoType /\ isTypeReferenceNode(param.type))
  THEN FALSE
  ELSE param.type.typeName = InvocationName

-----------------------------------------------------------------------------
(* Validation *)

MaxNameLength == 128

\* variant: a comparison that distinguishes case
areStringsIdentical(first, second) == first = second

areStringsEqual(first, second) == toLocaleLowerCase(first) = toLocaleLowerCase(second)

checkForDuplicate(list, item) == \E i \in DOMAIN list : areStringsEqual(list[i], item)

\* ^[a-zA-Z0-9._]*$
idRegEx(id) == \A i \in DOMAIN id : IsLetter(id[i]) \/ id[i] \in Digits \cup {".", "_"}

\* ^[\pL]
startsWithLetterRegEx(name) == name # <<>> /\ IsLetter(name[1])

\* ^[\pL][\pL0-9._]*$
validNameRegEx(name) ==
  /\ startsWithLetterRegEx(name)
  /\ \A i \in 2..Len(name) : IsLetter(name[i]) \/ name[i] \in Digits \cup {".", "_"}

\* variant: the length limit taken as exclusive
validateIdBelowLimit(id) ==
  (IF ~idRegEx(id) THEN <<Error("IdInvalidCharacters", id)>> ELSE <<>>)
  \o (IF Len(id) >= MaxNameLength THEN <<Error("IdTooLong", id)>> ELSE <<>>)

\* what validateId pushes on extra.errors
validateId(id) ==
  (IF ~idRegEx(id) THEN <<Error("IdInvalidCharacters", id)>> ELSE <<>>)
  \o (IF Len(id) > MaxNameLength THEN <<Error("IdTooLong", id)>> ELSE <<>>)

\* what validateName pushes on extra.errors; type is "function" or "enum"
validateName(name, type) ==
  (IF ~Truthy(name) THEN <<Error([function |-> "FunctionNameMissing",
                                   enum |-> "EnumNameMissing"][type], name)>>
   ELSE <<>>)
  \o (IF ~startsWithLetterRegEx(name)
      THEN <<Error([function |-> "FunctionNameStart",
                    enum |-> "EnumNameStart"][type], name)>>
      ELSE IF ~validNameRegEx(name)
      THEN <<Error([function |-> "FunctionNameInvalidCharacters",
                    enum |-> "EnumNameInvalidCharacters"][type], name)>>
      ELSE <<>>)
  \o (IF Len(name) > MaxNameLength
      THEN <<Error([function |-> "FunctionNameTooLong",
                    enum |-> "EnumNameTooLong"][type], name)>>
      ELSE <<>>)

\* variant: the id kept as written
keepCustomFunctionId(id) == id

normalizeCustomFunctionId(id) == IF Truthy(id) THEN toLocaleUpperCase(id) ELSE id

\* arr[i] of a JavaScript array, zero-based
At(arr, i) == IF i + 1 \in DOMAIN arr THEN arr[i + 1] ELSE Undefined

\* a || b for strings
OrElse(a, b) == IF Truthy(a) THEN a ELSE b

\* the object without field k
Delete(obj, k) == [f \in DOMAIN obj \ {k} |-> obj[f]]

-----------------------------------------------------------------------------
(* Options *)

OptionFlags ==
  {"cancelable", "requiresAddress", "requiresStreamAddress", "stream", "volatile",
   "requiresParameterAddresses", "requiresStreamParameterAddresses",
   "excludeFromAutoComplete", "linkedEntityLoadService", "capturesCallingObject"}

optionsItemOf(func, isStreamingFunction, isCancelableFunction) ==
  [cancelable |-> isCancelableTag(func, isCancelableFunction),
   requiresAddress |-> isAddressRequired(func) /\ ~isStreaming(func, isStreamingFunction),
   requiresStreamAddress |-> isAddressRequired(func) /\ isStreaming(func, isStreamingFunction),
   stream |-> isStreaming(func, isStreamingFunction),
   volatile |-> isVolatile(func),
   requiresParameterAddresses |->
     isRequiresParameterAddresses(func) /\ ~isStreaming(func, isStreamingFunction),
   requiresStreamParameterAddresses |->
     isRequiresParameterAddresses(func) /\ isStreaming(func, isStreamingFunction),
   excludeFromAutoComplete |-> isExcludedFromAutoComplete(func),
   linkedEntityLoadService |-> isLinkedEntityLoadService(func),
   capturesCallingObject |-> capturesCallingObject(func)]

\* the diagnostic of an address tag without a context parameter
AddressErrors(func, isStreamingFunction, isCancelableFunction, isInvocationFunction) ==
  IF /\ isAddressRequired(func) \/ isRequiresParameterAddresses(func)
     /\ ~isStreamingFunction /\ ~isCancelableFunction /\ ~isInvocationFunction
  THEN <<Error("LastParameterShouldBeInvocation",
               IF isAddressRequired(func) THEN REQUIRESADDRESS
               ELSE REQUIRESPARAMETERADDRESSES)>>
  ELSE <<>>

\* variant: the conflicting options looked at in the reverse order
ConflictingOptionLastFirst(optionsItem) ==
  IF optionsItem.capturesCallingObject THEN CAPTURESCALLINGOBJECT
  ELSE IF optionsItem.requiresParameterAddresses THEN REQUIRESPARAMETERADDRESSES
  ELSE IF optionsItem.requiresAddress THEN REQUIRESADDRESS
  ELSE IF optionsItem.stream THEN STREAMING
  ELSE IF optionsItem.volatile THEN VOLATILE
  ELSE IF optionsItem.excludeFromAutoComplete THEN EXCLUDEFROMAUTOCOMPLETE
  ELSE <<>>

\* the first option that conflicts with @linkedEntityLoadService
ConflictingOption(optionsItem) ==
  IF optionsItem.excludeFromAutoComplete THEN EXCLUDEFROMAUTOCOMPLETE
  ELSE IF optionsItem.volatile THEN VOLATILE
  ELSE IF optionsItem.stream THEN STREAMING
  ELSE IF optionsItem.requiresAddress THEN REQUIRESADDRESS
  ELSE IF optionsItem.requiresParameterAddresses THEN REQUIRESPARAMETERADDRESSES
  ELSE IF optionsItem.capturesCallingObject THEN CAPTURESCALLINGOBJECT
  ELSE <<>>

\* the diagnostic of an option used with @linkedEntityLoadService
LinkedEntityErrors(optionsItem) ==
  IF /\ optionsItem.linkedEntityLoadService
     /\ \/ optionsItem.excludeFromAutoComplete
        \/ optionsItem.volatile
        \/ optionsItem.stream
        \/ optionsItem.requiresAddress
        \/ optionsItem.requiresParameterAddresses
        \/ optionsItem.capturesCallingObject
  THEN <<Error("CannotBeUsedWithLinkedEntityLoadService", ConflictingOption(optionsItem))>>
  ELSE <<>>

OptionsResult(optionsItem, addressErrors) ==
  [options |-> optionsItem, errors |-> addressErrors \o LinkedEntityErrors(optionsItem)]

\* getOptions returns [options, errors]
getOptions(func, isStreamingFunction, isCancelableFunction, isInvocationFunction) ==
  OptionsResult(optionsItemOf(func, isStreamingFunction, isCancelableFunction),
                AddressErrors(func, isStreamingFunction, isCancelableFunction,
                              isInvocationFunction))

\* the deletions of buildFunctions: the options with every false flag removed
DeleteFalseOptions(options) ==
  [f \in {g \in DOMAIN options : options[g]} |-> options[f]]

\* variant: the test of capturesCallingObject left out
AllButLastOptionFalse(options) ==
  /\ ~options.cancelable
  /\ ~options.requiresAddress
  /\ ~options.requiresStreamAddress
  /\ ~options.stream
  /\ ~options.volatile
  /\ ~options.requiresParameterAddresses
  /\ ~options.requiresStreamParameterAddresses
  /\ ~options.excludeFromAutoComplete
  /\ ~options.linkedEntityLoadService

\* whether buildFunctions deletes functionMetadata.options
AllOptionsFalse(options) ==
  /\ ~options.cancelable
  /\ ~options.requiresAddress
  /\ ~options.requiresStreamAddress
  /\ ~options.stream
  /\ ~options.volatile
  /\ ~options.requiresParameterAddresses
  /\ ~options.requiresStreamParameterAddresses
  /\ ~options.excludeFromAutoComplete
  /\ ~options.linkedEntityLoadService
  /\ ~options.capturesCallingObject

-----------------------------------------------------------------------------
(* Result *)

TypeArguments(node) == IF isTypeReferenceNode(node) THEN node.typeArguments ELSE <<>>

\* a single-argument Promise<T> reference
IsPromiseOfOne(node) ==
  /\ node.kind = "TypeReference"
  /\ node.typeName = S_Promise
  /\ Len(node.typeArguments) = 1

\* variant: a Promise resolved as any other reference
KeepPromise(node) == node

\* the node a return type is resolved from: the argument of a Promise
UnwrapPromise(node) == IF IsPromiseOfOne(node) THEN node.typeArguments[1] ELSE node

Resolved(r, dim) == [type |-> r.ptype.type, dim |-> dim, errors |-> r.errors]

\* resultType, resultDim and the errors pushed, from one type node
ResolveType(node, basicEnumList, customEnumList) ==
  Resolved(getParamType(node, basicEnumList, customEnumList), getParamDim(node))

\* the same for a return type node, a Promise unwrapped
ResolveReturnType(node, basicEnumList, customEnumList) ==
  ResolveType(UnwrapPromise(node), basicEnumList, customEnumList)

\* resultItem after the conversion of cell value types and the deletions
DeleteDefaults(resultItem, resultType, resultDim) ==
  [f \in DOMAIN resultItem
         \ ((IF resultDim = S_scalar THEN {"dimensionality"} ELSE {})
            \cup (IF resultType = S_any THEN {"type"} ELSE {}))
     |-> resultItem[f]]

\* the last lines of getResults: the result item built from resultType, resultDim
FinalResultItem(resultType, resultDim) ==
  DeleteDefaults([dimensionality |-> resultDim, type |-> resultType],
                 IF resultType \in CellValueTypeValues THEN S_any ELSE resultType,
                 resultDim)

defaultResultItem == [dimensionality |-> S_scalar, type |-> S_any]

\* the result of a streaming function whose handler has no structural type
DocStreamingResult(ptype) ==
  [result |-> IF ptype.dimensionality = S_scalar
              THEN [type |-> ptype.returnType]
              ELSE [dimensionality |-> ptype.dimensionality, type |-> ptype.returnType],
   errors |-> <<>>]

\* the diagnostic of a doc return type of another kind than the structural one
ReturnMismatch(func) ==
  IF func.type # NoType /\ func.type.kind # func.jsDocReturnType.kind
  THEN <<Error("ReturnTypeDoesntMatch", func.name)>>
  ELSE <<>>

Finish(r, errorsBefore) ==
  [result |-> FinalResultItem(r.type, r.dim), errors |-> errorsBefore \o r.errors]

\* the @returns check and the last lines, entered with the structural result
WithDocReturn(func, structural, basicEnumList, customEnumList) ==
  IF func.jsDocReturnType # NoType
  THEN Finish(ResolveReturnType(func.jsDocReturnType, basicEnumList, customEnumList),
              structural.errors \o ReturnMismatch(func))
  ELSE Finish(structural, <<>>)

\* the streaming branch
StreamingResult(func, lastParameter, basicEnumList, customEnumList) ==
  IF lastParameter.type = NoType
  THEN DocStreamingResult(getJSDocParamsType(func, lastParameter.name))
  ELSE IF Len(TypeArguments(lastParameter.type)) # 1
  THEN [result |-> defaultResultItem,
        errors |-> <<Error("StreamingHandlerNeedsSingleResultType", <<>>)>>]
  ELSE IF func.type # NoType /\ func.type.kind # "VoidKeyword"
  THEN [result |-> defaultResultItem,
        errors |-> <<Error("StreamingFunctionShouldReturnVoid", <<>>)>>]
  ELSE WithDocReturn(func,
         ResolveType(lastParameter.type.typeArguments[1], basicEnumList, customEnumList),
         basicEnumList, customEnumList)

\* getResults returns [result, errors]
getResults(func, isStreamingFunction, lastParameter, basicEnumList, customEnumList) ==
  IF isStreamingFunction
  THEN StreamingResult(func, lastParameter, basicEnumList, customEnumList)
  ELSE IF func.type # NoType
  THEN WithDocReturn(func, ResolveReturnType(func.type, basicEnumList, customEnumList),
                     basicEnumList, customEnumList)
  ELSE WithDocReturn(func, [type |-> S_any, dim |-> S_scalar, errors |-> <<>>],
                     basicEnumList, customEnumList)

-----------------------------------------------------------------------------
(* Parameters *)

\* the typeNode getParameters resolves: the structural one, else the doc one
ParamTypeNode(p) == IF p.type = NoType /\ p.jsDocType # NoType THEN p.jsDocType ELSE p.type

\* pMetadataItem after the deletions
ParameterItemOf(name, ptype, description, dimensionality, optional, repeating) ==
  [f \in {"name"} \cup DOMAIN ptype
         \cup (IF dimensionality = S_scalar THEN {} ELSE {"dimensionality"})
         \cup (IF optional THEN {"optional"} ELSE {})
         \cup (IF Truthy(description) THEN {"description"} ELSE {})
         \cup (IF repeating THEN {"repeating"} ELSE {})
     |-> CASE f = "name" -> name
           [] f = "dimensionality" -> dimensionality
           [] f = "optional" -> optional
           [] f = "description" -> description
           [] f = "repeating" -> repeating
           [] OTHER -> ptype[f]]

\* the IFunctionParameter of one parameter
ParameterItem(p, func, basicEnumList, customEnumList) ==
  ParameterItemOf(p.name,
                  getParamType(ParamTypeNode(p), basicEnumList, customEnumList).ptype,
                  getJSDocParams(func, p.name),
                  getParamDim(ParamTypeNode(p)),
                  getParamOptional(p, func),
                  isRepeatingParameter(ParamTypeNode(p)))

\* what getParameters pushes on extra.errors for one parameter
ParameterErrors(p, basicEnumList, customEnumList) ==
  (IF p.jsDocType # NoType /\ p.type # NoType /\ p.jsDocType.kind # p.type.kind
   THEN <<Error("ParameterTypeDoesntMatch", p.name)>>
   ELSE <<>>)
  \o getParamType(ParamTypeNode(p), basicEnumList, customEnumList).errors

RECURSIVE ConcatAll(_)
ConcatAll(seqs) == IF seqs = <<>> THEN <<>> ELSE Head(seqs) \o ConcatAll(Tail(seqs))

\* getParameters returns [parameters, errors]
getParameters(parametersToParse, func, basicEnumList, customEnumList) ==
  [parameters |-> [i \in DOMAIN parametersToParse |->
                     ParameterItem(parametersToParse[i], func, basicEnumList, customEnumList)],
   errors |-> ConcatAll([i \in DOMAIN parametersToParse |->
                     ParameterErrors(parametersToParse[i], basicEnumList, customEnumList)])]

-----------------------------------------------------------------------------
(* Custom enums.  A member is [name, initializer, tooltip]; an initializer  *)
(* is NoInitializer or [kind, value] with kind NumericLiteral (decimal),   *)
(* HexLiteral, StringLiteral (double-quoted), SingleQuotedString or        *)
(* Expression.  A JavaScript value is [t, v] with t its typeof.            *)

NoInitializer == [kind |-> "None", value |-> 0]

\* !isNaN(Number(initializer.getText()))
IsNumberText(initializer) == initializer.kind \in {"NumericLiteral", "HexLiteral"}

\* whether JSON.parse(initializer.getText()) throws a SyntaxError
JSONParseThrows(initializer) ==
  initializer.kind \notin {"NumericLiteral", "StringLiteral"}

\* JSON.parse(initializer.getText()), when it does not throw
JSONParse(initializer) ==
  IF initializer.kind = "NumericLiteral"
  THEN [t |-> "number", v |-> initializer.value]
  ELSE [t |-> "string", v |-> initializer.value]

\* comment.match(/\{\s*(string|number)\s*\}/): the captured type, or Undefined
EnumTypeMatch(comment) ==
  LET hits == {i \in DOMAIN comment :
                 /\ comment[i] = "{"
                 /\ \E j \in (i + 1)..Len(comment) :
                      /\ comment[j] = "}"
                      /\ Trim(SubSeq(comment, i + 1, j - 1)) \in {S_string, S_number}}
      i == CHOOSE h \in hits : \A g \in hits : h <= g
      j == CHOOSE k \in (i + 1)..Len(comment) :
             /\ comment[k] = "}"
             /\ Trim(SubSeq(comment, i + 1, k - 1)) \in {S_string, S_number}
  IN IF hits = {} THEN Undefined ELSE Trim(SubSeq(comment, i + 1, j - 1))

\* variant: the values collected without the test of their type
RECURSIVE EnumMemberLoopUnchecked(_, _, _, _, _)
EnumMemberLoopUnchecked(members, i, defaultValueForNumberEnum, isNumberEnum, values) ==
  IF i > Len(members) THEN [status |-> "ok", values |-> values]
  ELSE IF members[i].initializer.kind # "None" /\ JSONParseThrows(members[i].initializer)
  THEN [status |-> "threw", values |-> values]
  ELSE EnumMemberLoopUnchecked(members, i + 1,
         IF members[i].initializer.kind # "None" THEN defaultValueForNumberEnum
         ELSE defaultValueForNumberEnum + 1,
         isNumberEnum,
         Append(values, [name |-> members[i].name,
                         value |-> IF members[i].initializer.kind # "None"
                                   THEN JSONParse(members[i].initializer)
                                   ELSE [t |-> "number", v |-> defaultValueForNumberEnum],
                         tooltip |-> members[i].tooltip]))

\* variant: the default value advanced by every member, valued or not
RECURSIVE EnumMemberLoopByPosition(_, _, _, _, _)
EnumMemberLoopByPosition(members, i, defaultValueForNumberEnum, isNumberEnum, values) ==
  IF i > Len(members) THEN [status |-> "ok", values |-> values]
  ELSE
    LET member == members[i]
        hasInit == member.initializer.kind # "None"
    IN IF hasInit /\ JSONParseThrows(member.initializer)
       THEN [status |-> "threw", values |-> values]
       ELSE
         LET value == IF hasInit THEN JSONParse(member.initializer)
                      ELSE [t |-> "number", v |-> defaultValueForNumberEnum]
         IN IF \/ isNumberEnum /\ value.t # "number"
               \/ ~isNumberEnum /\ value.t # "string"
            THEN [status |-> "inconsistent", values |-> values]
            ELSE EnumMemberLoopByPosition(members, i + 1, defaultValueForNumberEnum + 1,
                   isNumberEnum,
                   Append(values, [name |-> member.name, value |-> value,
                                   tooltip |-> member.tooltip]))

\* the loop over the members from member i on, with the values collected so
\* far: [status, values], status "ok", "inconsistent" (the early return) or
\* "threw" (JSON.parse threw)
RECURSIVE EnumMemberLoop(_, _, _, _, _)
EnumMemberLoop(members, i, defaultValueForNumberEnum, isNumberEnum, values) ==
  IF i > Len(members) THEN [status |-> "ok", values |-> values]
  ELSE
    LET member == members[i]
        hasInit == member.initializer.kind # "None"
    IN IF hasInit /\ JSONParseThrows(member.initializer)
       THEN [status |-> "threw", values |-> values]
       ELSE
         LET value == IF hasInit THEN JSONParse(member.initializer)
                      ELSE [t |-> "number", v |-> defaultValueForNumberEnum]
             nextDefault == IF hasInit THEN defaultValueForNumberEnum
                            ELSE defaultValueForNumberEnum + 1
         IN IF \/ isNumberEnum /\ value.t # "number"
               \/ ~isNumberEnum /\ value.t # "string"
            THEN [status |-> "inconsistent", values |-> values]
            ELSE EnumMemberLoop(members, i + 1, nextDefault, isNumberEnum,
                   Append(values, [name |-> member.name, value |-> value,
                                   tooltip |-> member.tooltip]))

Extra(errors, javascriptFunctionName) ==
  [errors |-> errors, javascriptFunctionName |-> javascriptFunctionName]

\* isNumberEnum, from the first member
FirstIsNumber(node) ==
  IF node.members[1].initializer.kind # "None"
  THEN IsNumberText(node.members[1].initializer)
  ELSE TRUE

\* jsDocType, from the comment of the @customenum tag
EnumJsDocType(comment) == IF Truthy(comment) THEN EnumTypeMatch(comment) ELSE Undefined

\* whether the first member's type contradicts the annotation
AnnotationMismatch(hasInitializer, jsDocType, isNumberEnum) ==
  /\ hasInitializer
  /\ jsDocType # Undefined
  /\ \/ isNumberEnum /\ jsDocType # S_number
     \/ ~isNumberEnum /\ jsDocType # S_string

\* the extras pushed before the members are read
EnumDiagnostics(id, enumIds, comment) ==
  <<Extra(validateName(id, "enum"), <<>>)>>
  \o (IF checkForDuplicate(enumIds, id)
      THEN <<Extra(<<Error("DuplicateEnumName", id)>>, <<>>)>>
      ELSE <<>>)
  \o (IF Truthy(comment) /\ EnumTypeMatch(comment) = Undefined
      THEN <<Extra(<<Error("UnknownEnumType", id)>>, <<>>)>>
      ELSE <<>>)

\* variant: the enum pushed although its values are inconsistent
EnumOutcomeKeepingAll(id, before, annotationMismatch, loop, isNumberEnum) ==
  IF loop.status = "threw"
  THEN [extras |-> before, ids |-> <<id>>, enums |-> <<>>, threw |-> TRUE]
  ELSE [extras |-> before
                   \o (IF annotationMismatch
                       THEN <<Extra(<<Error("EnumTypeMustMatchAnnotation", id)>>, <<>>)>>
                       ELSE IF loop.status = "inconsistent"
                       THEN <<Extra(<<Error("EnumValueTypeInconsistent", id)>>, <<>>)>>
                       ELSE <<>>),
        ids |-> <<id>>,
        enums |-> <<[id |-> id,
                     type |-> IF isNumberEnum THEN S_number ELSE S_string,
                     values |-> loop.values]>>,
        threw |-> FALSE]

\* what buildSingleCustomEnum leaves: the extras and ids it appended, the
\* enum it pushed (if any), and whether JSON.parse threw
EnumOutcome(id, before, annotationMismatch, loop, isNumberEnum) ==
  IF annotationMismatch
  THEN [extras |-> before \o <<Extra(<<Error("EnumTypeMustMatchAnnotation", id)>>, <<>>)>>,
        ids |-> <<id>>, enums |-> <<>>, threw |-> FALSE]
  ELSE IF loop.status = "threw"
  THEN [extras |-> before, ids |-> <<id>>, enums |-> <<>>, threw |-> TRUE]
  ELSE IF loop.status = "inconsistent"
  THEN [extras |-> before \o <<Extra(<<Error("EnumValueTypeInconsistent", id)>>, <<>>)>>,
        ids |-> <<id>>, enums |-> <<>>, threw |-> FALSE]
  ELSE [extras |-> before, ids |-> <<id>>,
        enums |-> <<[id |-> id,
                     type |-> IF isNumberEnum THEN S_number ELSE S_string,
                     values |-> loop.values]>>,
        threw |-> FALSE]

NoEnumOutcome == [extras |-> <<>>, ids |-> <<>>, enums |-> <<>>, threw |-> FALSE]

\* buildSingleCustomEnum on an enum declaration
buildSingleCustomEnum(node, enumIds) ==
  IF \/ ~node.parentIsSourceFile
     \/ ~isCustomEnum(node)
     \/ Len(node.members) = 0
  THEN NoEnumOutcome
  ELSE EnumOutcome(node.name,
                   EnumDiagnostics(node.name, enumIds, getTagComment(node, CUSTOM_ENUM)),
                   AnnotationMismatch(node.members[1].initializer.kind # "None",
                                      EnumJsDocType(getTagComment(node, CUSTOM_ENUM)),
                                      FirstIsNumber(node)),
                   EnumMemberLoop(node.members, 1, 0, FirstIsNumber(node), <<>>),
                   FirstIsNumber(node))

-----------------------------------------------------------------------------
(* Functions *)

\* variant: an object without fields taken as falsy
ResultIsEmpty(result) == DOMAIN result = {}

\* an object is truthy: `if (!functionMetadata.result)` never deletes
ResultIsFalsy(result) == FALSE

\* functionMetadata after the deletions
FunctionMetadata(id, name, parameters, options, helpUrl, description, result) ==
  [f \in {"id", "name", "parameters"}
         \cup (IF AllOptionsFalse(options) THEN {} ELSE {"options"})
         \cup (IF Truthy(helpUrl) THEN {"helpUrl"} ELSE {})
         \cup (IF Truthy(description) THEN {"description"} ELSE {})
         \cup (IF ResultIsFalsy(result) THEN {} ELSE {"result"})
     |-> CASE f = "id" -> id
           [] f = "name" -> name
           [] f = "parameters" -> parameters
           [] f = "options" -> DeleteFalseOptions(options)
           [] f = "helpUrl" -> helpUrl
           [] f = "description" -> description
           [] f = "result" -> result]

\* id and name, from the words of the @customfunction comment
IdAndName(id, nameOverride) == [id |-> id, name |-> OrElse(nameOverride, id)]

ResolveIdAndName(idNameArray, funcName) ==
  IdAndName(normalizeCustomFunctionId(OrElse(At(idNameArray, 0), funcName)),
            At(idNameArray, 1))

\* the validation and the duplicate checks of the id and the name
IdAndNameErrors(id, name, names, ids) ==
  validateId(id) \o validateName(name, "function")
  \o (IF checkForDuplicate(names, name)
      THEN <<Error("DuplicateCustomFunctionName", name)>> ELSE <<>>)
  \o (IF checkForDuplicate(ids, id)
      THEN <<Error("DuplicateCustomFunctionId", id)>> ELSE <<>>)

\* what buildFunctions pushes for one custom function
Assemble(node, sourceFileName, functionErrors, names, ids, parameters, result, options, idAndName) ==
  [functionMetadata |->
     FunctionMetadata(idAndName.id, idAndName.name, parameters.parameters,
                      options.options,
                      normalizeLineEndings(getTagComment(node, HELPURL_PARAM)),
                      getDescription(node), result.result),
   associate |-> [sourceFileName |-> sourceFileName, functionName |-> node.name,
                  id |-> idAndName.id],
   extra |-> Extra(functionErrors \o parameters.errors \o result.errors
                   \o options.errors
                   \o IdAndNameErrors(idAndName.id, idAndName.name, names, ids),
                   node.name),
   name |-> idAndName.name,
   id |-> idAndName.id]

\* the last parameter, NoParam when there is none
LastParameter(node) ==
  IF node.parameters = <<>> THEN NoParam ELSE node.parameters[Len(node.parameters)]

\* parametersToParse
ParametersToParse(node, hasContextParameter) ==
  IF hasContextParameter
  THEN SubSeq(node.parameters, 1, Len(node.parameters) - 1)
  ELSE node.parameters

\* the body of buildFunctions for a custom function, the roles decided
BuildWithRoles(node, sourceFileName, basicEnumList, customEnumList, functionErrors, names, ids, isStreamingFunction, isCancelableFunction, isInvocationFunction) ==
  Assemble(node, sourceFileName, functionErrors, names, ids,
           getParameters(ParametersToParse(node, isStreamingFunction
                                                 \/ isCancelableFunction
                                                 \/ isInvocationFunction),
                         node, basicEnumList, customEnumList),
           getResults(node, isStreamingFunction, LastParameter(node),
                      basicEnumList, customEnumList),
           getOptions(node, isStreamingFunction, isCancelableFunction,
                      isInvocationFunction),
           ResolveIdAndName(Split(getTagComment(node, CUSTOM_FUNCTION), " "), node.name))

\* buildFunctions on a top-level function declaration with @customfunction:
\* the record, the association row, the diagnostics, the name and the id
buildCustomFunction(node, sourceFileName, basicEnumList, customEnumList, functionErrors, names, ids) ==
  BuildWithRoles(node, sourceFileName, basicEnumList, customEnumList, functionErrors,
                 names, ids,
                 hasStreamingInvocationParameter(LastParameter(node), node),
                 hasCancelableInvocationParameter(LastParameter(node), node),
                 hasInvocationParameter(LastParameter(node), node))

-----------------------------------------------------------------------------
(* parseTree *)

SourceFileName == <<"f",".","t","s">>

\* the pass after the node at idx: the same pass, or the next one from node 1
Advance(next) ==
  IF idx < Len(sourceFile)
  THEN pc' = pc /\ idx' = idx + 1
  ELSE pc' = next /\ idx' = 1

\* buildEnums visits one node
BuildEnums ==
  /\ pc = "buildEnums"
  /\ basicEnums' = IF /\ sourceFile[idx].kind = "EnumDeclaration"
                      /\ ~isCustomEnum(sourceFile[idx])
                   THEN Append(basicEnums, sourceFile[idx].name)
                   ELSE basicEnums
  /\ Advance("buildCustomEnums")
  /\ UNCHANGED <<sourceFile, customEnums, functionNames, metadataFunctionNames,
                 metadataFunctionIds, metadataEnumIds, associate, functions, extras>>
  /\ UNCHANGED ruleVars

\* the pushes of buildSingleCustomEnum; an exception of JSON.parse leaves parseTree
PushEnum(out) ==
  /\ extras' = extras \o out.extras
  /\ metadataEnumIds' = metadataEnumIds \o out.ids
  /\ customEnums' = customEnums \o out.enums
  /\ IF out.threw
     THEN pc' = "thrown" /\ idx' = idx
     ELSE Advance("buildFunctions")

\* buildCustomEnums visits one node
BuildCustomEnums ==
  /\ pc = "buildCustomEnums"
  /\ PushEnum(IF sourceFile[idx].kind = "EnumDeclaration"
              THEN buildSingleCustomEnum(sourceFile[idx], metadataEnumIds)
              ELSE NoEnumOutcome)
  /\ UNCHANGED <<sourceFile, basicEnums, functionNames, metadataFunctionNames,
                 metadataFunctionIds, associate, functions>>
  /\ UNCHANGED ruleVars

\* variant: the association row put in front of the table
PushFunctionRowFirst(out) ==
  /\ metadataFunctionNames' = Append(metadataFunctionNames, out.name)
  /\ metadataFunctionIds' = Append(metadataFunctionIds, out.id)
  /\ associate' = <<out.associate>> \o associate
  /\ extras' = Append(extras, out.extra)
  /\ functions' = Append(functions, out.functionMetadata)

\* variant: the emitted names tracked among the ids as well
PushFunctionOneSet(out) ==
  /\ metadataFunctionNames' = Append(metadataFunctionNames, out.name)
  /\ metadataFunctionIds' = metadataFunctionIds \o <<out.id, out.name>>
  /\ associate' = Append(associate, out.associate)
  /\ extras' = Append(extras, out.extra)
  /\ functions' = Append(functions, out.functionMetadata)

\* the pushes of buildFunctions for a custom function
PushFunction(out) ==
  /\ metadataFunctionNames' = Append(metadataFunctionNames, out.name)
  /\ metadataFunctionIds' = Append(metadataFunctionIds, out.id)
  /\ associate' = Append(associate, out.associate)
  /\ extras' = Append(extras, out.extra)
  /\ functions' = Append(functions, out.functionMetadata)

\* variant: the declared names not compared
DeclaredNameErrorsNone(names, functionName) == <<>>

\* the diagnostic of a declared name seen before
DeclaredNameErrors(names, functionName) ==
  IF checkForDuplicate(names, functionName)
  THEN <<Error("DuplicateFunctionName", functionName)>>
  ELSE <<>>

\* buildFunctions visits one node
BuildFunctions ==
  /\ pc = "buildFunctions"
  /\ IF /\ sourceFile[idx].kind = "FunctionDeclaration"
        /\ sourceFile[idx].parentIsSourceFile
     THEN /\ functionNames' = Append(functionNames, sourceFile[idx].name)
          /\ IF isCustomFunction(sourceFile[idx])
             THEN PushFunction(
                    buildCustomFunction(sourceFile[idx], SourceFileName, basicEnums,
                      customEnums,
                      DeclaredNameErrors(functionNames, sourceFile[idx].name),
                      metadataFunctionNames, metadataFunctionIds))
             ELSE UNCHANGED <<metadataFunctionNames, metadataFunctionIds,
                              associate, extras, functions>>
     ELSE UNCHANGED <<functionNames, metadataFunctionNames, metadataFunctionIds,
                      associate, extras, functions>>
  /\ Advance("return")
  /\ UNCHANGED <<sourceFile, basicEnums, customEnums, metadataEnumIds>>
  /\ UNCHANGED ruleVars

\* parseTree returns parseTreeResult
Return ==
  /\ pc = "return"
  /\ pc' = "done"
  /\ UNCHANGED <<sourceFile, idx, basicEnums, customEnums, functionNames,
                 metadataFunctionNames, metadataFunctionIds, metadataEnumIds,
                 associate, functions, extras>>
  /\ UNCHANGED ruleVars

Next == BuildEnums \/ BuildCustomEnums \/ BuildFunctions \/ Return

\* the three passes as functions of the file, for the comparison of the
\* results of two files

\* buildEnums over the whole file
buildEnums(file) ==
  [k \in DOMAIN SelectSeq(file, LAMBDA n : n.kind = "EnumDeclaration" /\ ~isCustomEnum(n))
     |-> SelectSeq(file, LAMBDA n : n.kind = "EnumDeclaration" /\ ~isCustomEnum(n))[k].name]

\* the lists after buildSingleCustomEnum has pushed `out`
EnumsAfter(st, out) ==
  [extras |-> st.extras \o out.extras, ids |-> st.ids \o out.ids,
   enums |-> st.enums \o out.enums, threw |-> out.threw]

\* buildCustomEnums from node i on
RECURSIVE buildCustomEnums(_, _, _)
buildCustomEnums(file, i, st) ==
  IF i > Len(file) \/ st.threw THEN st
  ELSE buildCustomEnums(file, i + 1,
         EnumsAfter(st, IF file[i].kind = "EnumDeclaration"
                        THEN buildSingleCustomEnum(file[i], st.ids)
                        ELSE NoEnumOutcome))

\* the lists after buildFunctions has pushed `out` for a custom function
FunctionsAfter(st, functionName, out) ==
  [functionNames |-> Append(st.functionNames, functionName),
   names |-> Append(st.names, out.name), ids |-> Append(st.ids, out.id),
   associate |-> Append(st.associate, out.associate),
   extras |-> Append(st.extras, out.extra),
   functions |-> Append(st.functions, out.functionMetadata)]

\* buildFunctions on a top-level function declaration, functionErrors being
\* what the test of its declared name has pushed
DeclaredFunction(st, node, basicEnumList, customEnumList, functionErrors) ==
  IF ~isCustomFunction(node)
  THEN [st EXCEPT !.functionNames = Append(st.functionNames, node.name)]
  ELSE FunctionsAfter(st, node.name,
         buildCustomFunction(node, SourceFileName, basicEnumList, customEnumList,
                             functionErrors, st.names, st.ids))

\* buildFunctions on node i: the declared name is tested first
FunctionsStep(st, node, basicEnumList, customEnumList) ==
  IF ~(node.kind = "FunctionDeclaration" /\ node.parentIsSourceFile) THEN st
  ELSE IF DeclaredNameErrors(st.functionNames, node.name) = <<>>
  THEN DeclaredFunction(st, node, basicEnumList, customEnumList, <<>>)
  ELSE DeclaredFunction(st, node, basicEnumList, customEnumList,
                        DeclaredNameErrors(st.functionNames, node.name))

\* buildFunctions from node i on
RECURSIVE buildFunctions(_, _, _, _, _)
buildFunctions(file, i, st, basicEnumList, customEnumList) ==
  IF i > Len(file) THEN st
  ELSE buildFunctions(file, i + 1,
         FunctionsStep(st, file[i], basicEnumList, customEnumList),
         basicEnumList, customEnumList)

\* parseTreeResult, given the lists the passes leave
ParseTreeResult(enumsDone, functionsDone) ==
  [associate |-> functionsDone.associate, extras |-> functionsDone.extras,
   functions |-> functionsDone.functions, enums |-> enumsDone.enums]

\* the passes of functions, entered with the lists of the enum passes
ParseTreeFrom(file, basicEnumList, enumsDone) ==
  IF enumsDone.threw THEN [threw |-> TRUE]
  ELSE [threw |-> FALSE,
        result |-> ParseTreeResult(enumsDone,
                     buildFunctions(file, 1,
                       [functionNames |-> <<>>, names |-> <<>>, ids |-> <<>>,
                        associate |-> <<>>, extras |-> enumsDone.extras,
                        functions |-> <<>>],
                       basicEnumList, enumsDone.enums))]

\* parseTree of a file: [threw], and [result] when nothing was thrown
parseTree(file) ==
  ParseTreeFrom(file, buildEnums(file),
                buildCustomEnums(file, 1, [extras |-> <<>>, ids |-> <<>>,
                                            enums |-> <<>>, threw |-> FALSE]))

-----------------------------------------------------------------------------
(* Source files *)

MaxDepth == 4       \* array wrappers around a base type
MaxMembers == 3     \* members of an enum
MaxDecls == 2       \* declarations of a file with several declarations

NumberType == KeywordType("NumberKeyword")
StringType == KeywordType("StringKeyword")
BooleanType == KeywordType("BooleanKeyword")
AnyType == KeywordType("AnyKeyword")
VoidType == KeywordType("VoidKeyword")
ArrayOf(t) == TypeReferenceNode(S_Array, <<t>>)
PromiseOf(t) == TypeReferenceNode(S_Promise, <<t>>)
StreamingHandlerOf(args) == TypeReferenceNode(StreamingHandlerName, args)

N_Foo == <<"F","o","o">>
N_E == <<"E">>
N_Color == <<"C","o","l","o","r">>
N_f == <<"f">>
N_x == <<"x">>
N_h == <<"h">>
N_add == <<"a","d","d">>
N_ADD == <<"A","D","D">>
N_Add == <<"A","d","d">>
N_sub == <<"s","u","b">>

PrimitiveTypes == {NumberType, StringType, BooleanType}

BaseTypes ==
  PrimitiveTypes
  \cup {AnyType, VoidType, KeywordType("UnknownKeyword"), KeywordType("UnionType"),
        KeywordType("NeverKeyword")}
  \cup {TypeReferenceNode(n, <<>>) :
          n \in {N_Foo, CellValueName(<<"B","o","o","l","e","a","n">>),
                 CellValueName(<<>>), CellValueName(<<"A","r","r","a","y">>)}}

\* the base types under at most d wrappers T[] or Array<T>, in any mix
RECURSIVE TypesUpTo(_)
TypesUpTo(d) ==
  IF d = 0 THEN BaseTypes
  ELSE LET S == TypesUpTo(d - 1)
       IN S \cup {ArrayTypeNode(t) : t \in S} \cup {ArrayOf(t) : t \in S}

Types == TypesUpTo(MaxDepth)

Tag(tagName, comment) == [tagName |-> tagName, comment |-> comment]
CustomFunctionTag == Tag(CUSTOM_FUNCTION, <<>>)
CustomEnumTag(comment) == Tag(CUSTOM_ENUM, comment)

Param(name, type) == [name |-> name, type |-> type, jsDocType |-> NoType,
                      isOptional |-> FALSE]

FunctionDeclaration(name, tags, parameters, type, jsDocReturnType) ==
  [kind |-> "FunctionDeclaration", parentIsSourceFile |-> TRUE, name |-> name,
   jsDocComment |-> <<>>, tags |-> tags, paramTags |-> <<>>,
   parameters |-> parameters, type |-> type, jsDocReturnType |-> jsDocReturnType]

EnumDeclaration(name, tags, members) ==
  [kind |-> "EnumDeclaration", parentIsSourceFile |-> TRUE, name |-> name,
   tags |-> tags, members |-> members]

\* one custom function with one parameter of each type
ParameterFunctions ==
  {FunctionDeclaration(N_f, <<CustomFunctionTag>>, <<Param(N_x, t)>>, NoType, NoType) :
     t \in Types}

\* one custom function of each return type, bare and under one or two Promises
ReturnTypes == Types \cup {PromiseOf(t) : t \in Types}
               \cup {PromiseOf(PromiseOf(t)) : t \in BaseTypes}
DocReturnTypes == {NoType, NumberType, PromiseOf(AnyType),
                   ArrayTypeNode(ArrayTypeNode(StringType))}
ReturnFunctions ==
  {FunctionDeclaration(N_f, <<CustomFunctionTag>>, <<>>, r, j) :
     r \in ReturnTypes \cup {NoType}, j \in DocReturnTypes}

\* streaming functions: a handler with no, one or two type arguments
HandlerArguments ==
  {<<>>, <<NumberType, StringType>>} \cup {<<t>> : t \in TypesUpTo(2)}
StreamingFunctions ==
  {FunctionDeclaration(N_f, <<CustomFunctionTag>>,
                       <<Param(N_x, NumberType), Param(N_h, StreamingHandlerOf(a))>>,
                       r, j) :
     a \in HandlerArguments, r \in {NoType, VoidType, NumberType},
     j \in {NoType, NumberType}}


\* a tag name as it is commonly written, with a capital
Capitalized(s) == <<ToUpperChar(s[1])>> \o Tail(s)

OptionTagNames ==
  <<CANCELABLE, Capitalized(CAPTURESCALLINGOBJECT), EXCLUDEFROMAUTOCOMPLETE,
    LINKEDENTITYLOADSERVICE, REQUIRESADDRESS, REQUIRESPARAMETERADDRESSES,
    Capitalized(STREAMING), VOLATILE>>

\* the option tags at the positions in S, in the order of OptionTagNames
OptionTags(S) ==
  LET chosen == SelectSeq([i \in DOMAIN OptionTagNames |-> i], LAMBDA i : i \in S)
  IN [k \in DOMAIN chosen |-> Tag(OptionTagNames[chosen[k]], <<>>)]

LastParameters ==
  {<<>>,
   <<Param(N_x, NumberType)>>,
   <<Param(N_x, NumberType), Param(N_h, StreamingHandlerOf(<<NumberType>>))>>,
   <<Param(N_x, NumberType), Param(N_h, TypeReferenceNode(CancelableHandlerName, <<>>))>>,
   <<Param(N_x, NumberType), Param(N_h, TypeReferenceNode(InvocationName, <<>>))>>}

\* one custom function with each set of option tags and each kind of last parameter
OptionFunctions ==
  {FunctionDeclaration(N_f, <<CustomFunctionTag>> \o OptionTags(S), ps, NoType, NoType) :
     S \in SUBSET DOMAIN OptionTagNames, ps \in LastParameters}

DeclaredNames ==
  {N_add, N_Add, <<"a","1">>, <<"_","a">>, <<"a","$">>, <<"a",".","b">>, <<>>}
  \cup {Rep("a", n) : n \in (MaxNameLength - 1)..(MaxNameLength + 1)}

TagComments ==
  {<<>>, <<"i","d">>, <<"i","d"," ","n","m">>, <<" ","n","m">>,
   <<"i","-"," ","1","n">>,
   Rep("i", MaxNameLength) \o <<" ">> \o Rep("n", MaxNameLength + 1),
   Rep("i", MaxNameLength + 1) \o <<" ">> \o Rep("n", MaxNameLength)}

\* custom functions of each declared name with each "<id> <name>" override
NameFunctions ==
  {FunctionDeclaration(n, <<Tag(Capitalized(CUSTOM_FUNCTION), c)>>, <<>>, NoType, NoType) :
     n \in DeclaredNames, c \in TagComments}

\* {CustomFunctions.StreamingHandler<inner>}
HandlerTypeExpression(inner) ==
  <<"{">> \o StreamingHandlerName \o <<"<">> \o inner \o <<">", "}">>

ParamTag(name, typeExpression, isBracketed, comment) ==
  [name |-> name, typeExpression |-> typeExpression, isBracketed |-> isBracketed,
   comment |-> comment]

\* functions whose types come from the doc comment only, with a description
\* and a help url
DocFunctions ==
  {[FunctionDeclaration(N_f, <<CustomFunctionTag, Tag(HELPURL_PARAM, u)>>,
                        <<Param(N_x, NoType), Param(N_h, NoType)>>, NoType, NoType)
      EXCEPT !.jsDocComment = d,
             !.paramTags = <<ParamTag(N_x, Undefined, b, <<"-"," ","a","n"," ","x">>), pt>>] :
     u \in {<<>>, <<"u","\r","\n","v">>},
     d \in {<<>>, <<"d","\r","e">>},
     b \in BOOLEAN,
     pt \in {ParamTag(N_h, HandlerTypeExpression(i), FALSE, <<>>) :
               i \in {S_number, S_any, S_string \o <<"[","]">>,
                      S_string \o <<"[","]","[","]">>}}
            \cup {ParamTag(N_h, <<"{">> \o S_number \o <<"}">>, FALSE, <<>>)}}

\* functions whose last parameter has a structural type and a doc type
HandlerDocTypes ==
  {HandlerTypeExpression(S_number),
   <<"{">> \o CancelableInvocationName \o <<"}">>,
   <<"{">> \o InvocationName \o <<"}">>,
   <<"{">> \o S_number \o <<"}">>}

TypedAndDocFunctions ==
  {[FunctionDeclaration(N_f, <<CustomFunctionTag>>,
                        <<Param(N_x, NumberType), Param(N_h, t)>>, NoType, NoType)
      EXCEPT !.paramTags = <<ParamTag(N_h, e, FALSE, <<>>)>>] :
     t \in {NumberType, TypeReferenceNode(N_Foo, <<>>),
            StreamingHandlerOf(<<NumberType>>),
            TypeReferenceNode(CancelableHandlerName, <<>>)},
     e \in HandlerDocTypes}

N_linkedEntityDataProviderTest ==
  <<"l","i","n","k","e","d","E","n","t","i","t","y","D","a","t","a",
    "P","r","o","v","i","d","e","r","T","e","s","t">>
N_linkedEntityId == <<"l","i","n","k","e","d","E","n","t","i","t","y","I","d">>
T_linkedEntityDataProvider ==
  <<"l","i","n","k","e","d","E","n","t","i","t","y","D","a","t","a",
    "P","r","o","v","i","d","e","r">>
D_linkedEntityDataProviderTest ==
  <<"T","e","s","t"," ","t","h","e"," ","l","i","n","k","e","d","E",
    "n","t","i","t","y","D","a","t","a","P","r","o","v","i","d","e",
    "r"," ","t","a","g"," ","i","n"," ","c","o","m","b","i","n","a",
    "t","i","o","n"," ","w","i","t","h"," ","t","h","e"," ","e","x",
    "c","l","u","d","e","F","r","o","m","A","u","t","o","C","o","m",
    "p","l","e","t","e"," ","t","a","g">>
\* (the backquotes of the text are written as apostrophes)
D_linkedEntityId ==
  <<"U","n","i","q","u","e"," ","'","L","i","n","k","e","d","E","n",
    "t","i","t","y","I","d","'"," ","o","f"," ","t","h","e"," ","'",
    "L","i","n","k","e","d","E","n","t","i","t","y","C","e","l","l",
    "V","a","l","u","e","'","s"," ","w","h","i","c","h"," ","i","s",
    " ","b","e","i","n","g"," ","r","e","q","u","e","s","t","e","d",
    " ","f","o","r"," ","r","e","s","o","l","u","t","i","o","n","/",
    "r","e","f","r","e","s","h",".">>

\* the custom function of the test input
linkedEntityDataProviderTest ==
  [FunctionDeclaration(N_linkedEntityDataProviderTest,
     <<CustomFunctionTag, Tag(T_linkedEntityDataProvider, <<>>),
       Tag(EXCLUDEFROMAUTOCOMPLETE, <<>>)>>,
     <<[Param(N_linkedEntityId, KeywordType("UnknownKeyword"))
          EXCEPT !.jsDocType = KeywordType("UnknownKeyword")]>>,
     PromiseOf(AnyType), PromiseOf(AnyType))
   EXCEPT !.jsDocComment = D_linkedEntityDataProviderTest,
          !.paramTags = <<ParamTag(N_linkedEntityId, <<"{","u","n","k","n","o","w","n","}">>,
                                   FALSE, D_linkedEntityId)>>]

MemberName(i) == <<"m", <<"0","1","2","3","4","5","6","7","8","9">>[i + 1]>>

Initializers ==
  {NoInitializer,
   [kind |-> "NumericLiteral", value |-> 0],
   [kind |-> "NumericLiteral", value |-> 5],
   [kind |-> "HexLiteral", value |-> 16],
   [kind |-> "StringLiteral", value |-> <<"a">>],
   [kind |-> "SingleQuotedString", value |-> <<"a">>],
   [kind |-> "Expression", value |-> 0]}

Members(n) ==
  {[i \in 1..n |-> [name |-> MemberName(i), initializer |-> inits[i], tooltip |-> <<>>]] :
     inits \in [1..n -> Initializers]}

EnumTags ==
  {<<>>, <<CustomEnumTag(<<>>)>>,
   <<CustomEnumTag(<<"{">> \o S_number \o <<"}">>)>>,
   <<CustomEnumTag(<<"{"," ">> \o S_string \o <<" ","}">>)>>,
   <<CustomEnumTag(<<"{">> \o S_boolean \o <<"}">>)>>}

\* enums of each member list and each tag, and custom enums of long names
EnumDeclarations ==
  {EnumDeclaration(N_E, tags, ms) :
     tags \in EnumTags, ms \in UNION {Members(n) : n \in 0..MaxMembers}}
  \cup {EnumDeclaration(Rep("E", n), <<CustomEnumTag(<<>>)>>, ms) :
          n \in (MaxNameLength - 1)..(MaxNameLength + 1), ms \in Members(1)}

\* the declarations of the files with several declarations
SmallDeclarations ==
  {FunctionDeclaration(N_add, <<CustomFunctionTag>>, <<>>, NoType, NoType),
   FunctionDeclaration(N_ADD, <<CustomFunctionTag>>, <<>>, NoType, NoType),
   FunctionDeclaration(N_Add, <<>>, <<>>, NoType, NoType),
   FunctionDeclaration(N_sub, <<Tag(CUSTOM_FUNCTION, N_add \o <<" ">> \o N_sub)>>,
                       <<>>, NoType, NoType),
   FunctionDeclaration(N_f, <<CustomFunctionTag>>,
                       <<Param(N_x, TypeReferenceNode(N_E, <<>>))>>,
                       TypeReferenceNode(N_Color, <<>>), NoType),
   FunctionDeclaration(N_h, <<Tag(CUSTOM_FUNCTION, N_sub \o <<" ">> \o N_E)>>,
                       <<>>, NoType, NoType),
   FunctionDeclaration(N_x, <<CustomFunctionTag>>,
                       <<Param(N_h, TypeReferenceNode(N_Color, <<>>))>>,
                       TypeReferenceNode(N_E, <<>>), NoType),
   [FunctionDeclaration(N_sub, <<CustomFunctionTag>>, <<>>, NoType, NoType)
      EXCEPT !.parentIsSourceFile = FALSE],
   EnumDeclaration(N_E, <<CustomEnumTag(<<>>)>>,
     <<[name |-> MemberName(1), initializer |-> NoInitializer, tooltip |-> <<>>],
       [name |-> MemberName(2), initializer |-> [kind |-> "NumericLiteral", value |-> 5],
        tooltip |-> <<>>],
       [name |-> MemberName(3), initializer |-> NoInitializer, tooltip |-> <<>>]>>),
   EnumDeclaration(N_Color, <<>>,
     <<[name |-> MemberName(1), initializer |-> NoInitializer, tooltip |-> <<>>]>>),
   [EnumDeclaration(N_Color, <<>>,
      <<[name |-> MemberName(1), initializer |-> NoInitializer, tooltip |-> <<>>]>>)
      EXCEPT !.parentIsSourceFile = FALSE],
   [EnumDeclaration(N_E, <<CustomEnumTag(<<>>)>>,
      <<[name |-> MemberName(1), initializer |-> NoInitializer, tooltip |-> <<>>]>>)
      EXCEPT !.parentIsSourceFile = FALSE]}

\* the rule load-object-before-read is not run
NoRule ==
  /\ references = <<>>
  /\ refIdx = 1
  /\ getFound = FALSE
  /\ loadLocation = <<>>
  /\ reports = <<>>

SourceFiles ==
  {<<d>> : d \in ParameterFunctions \cup ReturnFunctions \cup StreamingFunctions
                 \cup OptionFunctions \cup NameFunctions \cup DocFunctions
                 \cup TypedAndDocFunctions
                 \cup EnumDeclarations \cup {linkedEntityDataProviderTest}}
  \cup UNION {[1..n -> SmallDeclarations] : n \in 2..MaxDecls}

Init ==
  /\ sourceFile \in SourceFiles
  /\ pc = "buildEnums"
  /\ idx = 1
  /\ basicEnums = <<>>
  /\ customEnums = <<>>
  /\ functionNames = <<>>
  /\ metadataFunctionNames = <<>>
  /\ metadataFunctionIds = <<>>
  /\ metadataEnumIds = <<>>
  /\ associate = <<>>
  /\ functions = <<>>
  /\ extras = <<>>
  /\ NoRule

Spec == Init /\ [][Next]_vars

-----------------------------------------------------------------------------
(* Properties.  The i-th emitted record comes from the i-th top-level      *)
(* function declaration of the file that carries @customfunction, and its  *)
(* diagnostics are the entry of extras pushed with it.                     *)

CustomFunctionDecls ==
  SelectSeq(sourceFile, LAMBDA n : /\ n.kind = "FunctionDeclaration"
                                   /\ n.parentIsSourceFile
                                   /\ isCustomFunction(n))

Decl(i) == CustomFunctionDecls[i]

FunctionExtra(i) == extras[Len(extras) - Len(functions) + i]

Codes(errors) == {errors[k].code : k \in DOMAIN errors}

AllErrors == ConcatAll([k \in DOMAIN extras |-> extras[k].errors])

CountCode(code) == Cardinality({k \in DOMAIN AllErrors : AllErrors[k].code = code})

IsStreamingDecl(d) == hasStreamingInvocationParameter(LastParameter(d), d)

\* the names of the emitted parameters are those of the declared ones but the last
LastParameterExcluded(f, d) ==
  /\ Len(f.parameters) = Len(d.parameters) - 1
  /\ \A k \in DOMAIN f.parameters : f.parameters[k].name = d.parameters[k].name

(* ---- C1 ---- *)

\* last parameter CustomFunctions.StreamingHandler<string[]>, no non-void
\* return type, no doc return tag
IsHandlerOfStringArray(d) ==
  /\ d.parameters # <<>>
  /\ LastParameter(d).type = StreamingHandlerOf(<<ArrayTypeNode(StringType)>>)
  /\ d.type \in {NoType, VoidType}
  /\ d.jsDocReturnType = NoType

\* C1 (as the code has it): a function that streams through a last parameter
\* of type StreamingHandler<string[]> is emitted with result { type: "string" },
\* the dimensionality omitted because one array wrapper is scalar, and its
\* parameter list is the declared one without that last parameter.
C1_StreamingStringArrayIsScalar ==
  \A i \in DOMAIN functions :
    IsHandlerOfStringArray(Decl(i)) =>
      /\ functions[i].result = [type |-> S_string]
      /\ LastParameterExcluded(functions[i], Decl(i))

C1_Witness ==
  \E i \in DOMAIN functions :
    /\ IsHandlerOfStringArray(Decl(i))
    /\ Len(Decl(i).parameters) = 2
    /\ Len(functions[i].parameters) = 1
    /\ "dimensionality" \notin DOMAIN functions[i].result

\* C1 as stated: the result is { type: "string", dimensionality: "matrix" }
C1_AsStated ==
  \A i \in DOMAIN functions :
    IsHandlerOfStringArray(Decl(i)) =>
      /\ functions[i].result = [type |-> S_string, dimensionality |-> S_matrix]
      /\ LastParameterExcluded(functions[i], Decl(i))

(* ---- C2 ---- *)

\* exactly two top-level custom functions, their declared names different
\* but equal up to letter case, neither with an id or name override
TwoFunctionsDifferingInCase ==
  /\ Len(CustomFunctionDecls) = 2
  /\ Decl(1).name # Decl(2).name
  /\ toLocaleLowerCase(Decl(1).name) = toLocaleLowerCase(Decl(2).name)
  /\ getTagComment(Decl(1), CUSTOM_FUNCTION) = <<>>
  /\ getTagComment(Decl(2), CUSTOM_FUNCTION) = <<>>

ResolvesToAnyScalar(d) ==
  /\ ~IsStreamingDecl(d)
  /\ \/ d.jsDocReturnType = PromiseOf(AnyType)
     \/ /\ d.jsDocReturnType = NoType
        /\ d.type \in {NoType, AnyType, PromiseOf(AnyType)}

C4_NoExceptionEscapes == pc # "thrown"

\* a custom enum with a single-quoted initializer, and parseTree left by the
\* SyntaxError of JSON.parse
C4_Witness ==
  /\ pc = "thrown"
  /\ sourceFile[idx].kind = "EnumDeclaration"
  /\ \E m \in DOMAIN sourceFile[idx].members :
       sourceFile[idx].members[m].initializer.kind = "SingleQuotedString"
  /\ functions = <<>>

(* ---- C5 ---- *)

\* C5: a custom function whose @customfunction tag has an empty comment is
\* emitted with id = the declared name in upper case, and name = id.
C5_DefaultIdAndName ==
  \A i \in DOMAIN functions :
    getTagComment(Decl(i), CUSTOM_FUNCTION) = <<>> =>
      /\ functions[i].id = [k \in DOMAIN Decl(i).name |-> ToUpperChar(Decl(i).name[k])]
      /\ functions[i].name = functions[i].id

C5_Witness ==
  \E i \in DOMAIN functions :
    /\ getTagComment(Decl(i), CUSTOM_FUNCTION) = <<>>
    /\ Decl(i).name = N_add
    /\ functions[i].id = N_ADD
    /\ functions[i].name = N_ADD

(* ---- C6 ---- *)

\* the number of wrappers T[] and Array<T> around a type, in any mix
RECURSIVE NestingDepth(_)
NestingDepth(t) ==
  IF t.kind = "ArrayType" THEN 1 + NestingDepth(t.elementType)
  ELSE IF t.kind = "TypeReference" /\ t.typeName = S_Array /\ Len(t.typeArguments) = 1
  THEN 1 + NestingDepth(t.typeArguments[1])
  ELSE 0

\* the type under the wrappers
RECURSIVE InnermostType(_)
InnermostType(t) ==
  IF t.kind = "ArrayType" THEN InnermostType(t.elementType)
  ELSE IF t.kind = "TypeReference" /\ t.typeName = S_Array /\ Len(t.typeArguments) = 1
  THEN InnermostType(t.typeArguments[1])
  ELSE t

\* d wrappers of one shape around t
RECURSIVE Brackets(_, _)
Brackets(t, d) == IF d = 0 THEN t ELSE ArrayTypeNode(Brackets(t, d - 1))

RECURSIVE Generics(_, _)
Generics(t, d) == IF d = 0 THEN t ELSE ArrayOf(Generics(t, d - 1))

\* what C6 says of an emitted parameter whose type has nesting depth d
DepthRule(item, d) ==
  /\ d = 1 => "dimensionality" \notin DOMAIN item
              /\ "repeating" \in DOMAIN item /\ item.repeating = TRUE
  /\ d = 2 => "dimensionality" \in DOMAIN item /\ item.dimensionality = S_matrix
              /\ "repeating" \notin DOMAIN item
  /\ d = 3 => "dimensionality" \in DOMAIN item /\ item.dimensionality = S_matrix
              /\ "repeating" \in DOMAIN item /\ item.repeating = TRUE
  /\ d \notin {1, 3} => "repeating" \notin DOMAIN item

\* C6 as stated: a parameter whose structural type is a primitive under array
\* nesting of depth d is emitted scalar and repeating for d = 1, matrix and
\* not repeating for d = 2, matrix and repeating for d = 3, and is repeating
\* for no other depth; the nesting built from T[] and Array<T> in any mix.
C6_AsStated ==
  \A i \in DOMAIN functions : \A k \in DOMAIN functions[i].parameters :
    InnermostType(Decl(i).parameters[k].type) \in PrimitiveTypes =>
      DepthRule(functions[i].parameters[k], NestingDepth(Decl(i).parameters[k].type))

\* C6 for nesting of one shape: the rule holds when the wrappers are all T[]
\* or all Array<T>, for every depth up to MaxDepth.
C6_OneShapeNesting ==
  \A i \in DOMAIN functions : \A k \in DOMAIN functions[i].parameters :
    \A prim \in PrimitiveTypes : \A d \in 0..MaxDepth :
      Decl(i).parameters[k].type \in {Brackets(prim, d), Generics(prim, d)} =>
        DepthRule(functions[i].parameters[k], d)

\* Array<number[]>, of depth 2, emitted scalar and repeating
C6_Witness ==
  \E i \in DOMAIN functions :
    /\ Len(functions[i].parameters) = 1
    /\ Decl(i).parameters[1].type = ArrayOf(ArrayTypeNode(NumberType))
    /\ "dimensionality" \notin DOMAIN functions[i].parameters[1]
    /\ "repeating" \in DOMAIN functions[i].parameters[1]

(* ---- C7 ---- *)

\* the declarations an emitted enum can come from
IsDeclarationOf(node, enum) ==
  /\ node.kind = "EnumDeclaration"
  /\ node.parentIsSourceFile
  /\ isCustomEnum(node)
  /\ node.name = enum.id
  /\ Len(node.members) = Len(enum.values)

\* the number of members before member m that have no initializer
UnvaluedBefore(members, m) ==
  Cardinality({j \in 1..(m - 1) : members[j].initializer.kind = "None"})

\* C7: in every emitted number enum, a member without initializer has the
\* value k when k members without initializer precede it, whatever the
\* initializers of the other members; with no initializer at all, member N
\* (from 0) has the value N.
C7_SequentialDefaults ==
  \A e \in DOMAIN customEnums : \A n \in DOMAIN sourceFile :
    (customEnums[e].type = S_number /\ IsDeclarationOf(sourceFile[n], customEnums[e])) =>
      \A m \in DOMAIN sourceFile[n].members :
        sourceFile[n].members[m].initializer.kind = "None" =>
          customEnums[e].values[m].value =
            [t |-> "number", v |-> UnvaluedBefore(sourceFile[n].members, m)]

\* m1, m2 = 5, m3 emitted with the values 0, 5, 1
C7_Witness ==
  \E e \in DOMAIN customEnums : \E n \in DOMAIN sourceFile :
    /\ customEnums[e].type = S_number
    /\ IsDeclarationOf(sourceFile[n], customEnums[e])
    /\ Len(sourceFile[n].members) = 3
    /\ sourceFile[n].members[1].initializer.kind = "None"
    /\ sourceFile[n].members[2].initializer = [kind |-> "NumericLiteral", value |-> 5]
    /\ sourceFile[n].members[3].initializer.kind = "None"
    /\ customEnums[e].values[1].value.v = 0
    /\ customEnums[e].values[2].value.v = 5
    /\ customEnums[e].values[3].value.v = 1

(* ---- C8 ---- *)

\* no parameter, no doc return tag, the return type a Promise of one argument
ReturnsPromise(d) ==
  /\ d.parameters = <<>>
  /\ d.jsDocReturnType = NoType
  /\ d.type.kind = "TypeReference"
  /\ d.type.typeName = S_Promise
  /\ Len(d.type.typeArguments) = 1

\* the result emitted for the same function with the return type t
ResultFor(d, t) ==
  getResults([d EXCEPT !.type = t], FALSE, NoParam, basicEnums, customEnums).result

IsPromiseType(t) ==
  t.kind = "TypeReference" /\ t.typeName = S_Promise /\ Len(t.typeArguments) = 1

\* C8 (as the code has it): the Promise is unwrapped one level and T is
\* resolved as a type.  When T is not itself a Promise of one argument the
\* result is the one emitted for the return type T, { type: "number" } for
\* T = number; when T is a Promise it is not unwrapped again: the result is
\* the empty descriptor, with the unsupported-type diagnostic naming Promise.
C8_PromiseUnwrappedOnce ==
  \A i \in DOMAIN functions :
    ReturnsPromise(Decl(i)) =>
      /\ ~IsPromiseType(Decl(i).type.typeArguments[1]) =>
           functions[i].result = ResultFor(Decl(i), Decl(i).type.typeArguments[1])
      /\ Decl(i).type.typeArguments[1] = NumberType =>
           functions[i].result = [type |-> S_number]
      /\ IsPromiseType(Decl(i).type.typeArguments[1]) =>
           /\ DOMAIN functions[i].result = {}
           /\ Error("UnsupportedType", S_Promise) \in Range(FunctionExtra(i).errors)

C8_Witness ==
  /\ \E i \in DOMAIN functions :
       /\ ReturnsPromise(Decl(i))
       /\ Decl(i).type = PromiseOf(NumberType)
       /\ functions[i].result = [type |-> S_number]
  /\ pc = "done"

\* C8 as stated: the result is the one emitted for the return type T, for every T
C8_AsStated ==
  \A i \in DOMAIN functions :
    ReturnsPromise(Decl(i)) =>
      functions[i].result = ResultFor(Decl(i), Decl(i).type.typeArguments[1])

(* ---- C9 ---- *)

\* the top-level custom enums with a member: those whose name is validated
ValidatedEnumNames ==
  {sourceFile[n].name : n \in {j \in DOMAIN sourceFile :
                                 /\ sourceFile[j].kind = "EnumDeclaration"
                                 /\ sourceFile[j].parentIsSourceFile
                                 /\ isCustomEnum(sourceFile[j])
                                 /\ Len(sourceFile[j].members) > 0}}

\* C9: the length diagnostic of a function id, of a function name and of an
\* enum name is emitted exactly when the length exceeds 128: none at 128
\* characters, one at 129.
C9_LengthLimit ==
  /\ \A i \in DOMAIN functions :
       /\ "IdTooLong" \in Codes(FunctionExtra(i).errors) <=> Len(functions[i].id) > 128
       /\ "FunctionNameTooLong" \in Codes(FunctionExtra(i).errors)
            <=> Len(functions[i].name) > 128
  /\ pc \in {"buildFunctions", "return", "done"} =>
       \A name \in ValidatedEnumNames :
         Error("EnumNameTooLong", name) \in Range(AllErrors) <=> Len(name) > 128

\* an id of 128 characters without the diagnostic beside a name of 129 with it
C9_Witness ==
  \E i \in DOMAIN functions :
    /\ Len(functions[i].id) = 128
    /\ Len(functions[i].name) = 129
    /\ "IdTooLong" \notin Codes(FunctionExtra(i).errors)
    /\ "FunctionNameTooLong" \in Codes(FunctionExtra(i).errors)

(* ---- C10 ---- *)

\* the ten flags as getOptions computes them for the i-th record
FlagsOf(i) ==
  optionsItemOf(Decl(i), IsStreamingDecl(Decl(i)),
                hasCancelableInvocationParameter(LastParameter(Decl(i)), Decl(i)))

\* C10: an emitted record has an options block exactly when one of the ten
\* flags is true, and the block holds exactly the true flags, each with the
\* value true.
C10_OptionsBlock ==
  \A i \in DOMAIN functions :
    LET flags == FlagsOf(i)
        trueFlags == {f \in OptionFlags : flags[f]}
    IN /\ "options" \in DOMAIN functions[i] <=> trueFlags # {}
       /\ "options" \in DOMAIN functions[i] =>
            /\ DOMAIN functions[i].options = trueFlags
            /\ \A f \in DOMAIN functions[i].options : functions[i].options[f] = TRUE

\* a record whose only true flag is capturesCallingObject
C10_Witness ==
  \E i \in DOMAIN functions :
    /\ "options" \in DOMAIN functions[i]
    /\ DOMAIN functions[i].options = {"capturesCallingObject"}
    /\ functions[i].options.capturesCallingObject = TRUE

(* ---- C11 ---- *)

\* C11: the association table has one row per emitted record, in the same
\* order: row i holds the source file name, the declared name of the i-th
\* custom function and the id of functions[i].
C11_AssociationRows ==
  /\ Len(associate) = Len(functions)
  /\ \A i \in DOMAIN functions :
       associate[i] = [sourceFileName |-> SourceFileName,
                       functionName |-> Decl(i).name,
                       id |-> functions[i].id]

\* two records of different ids, their rows in the order of the declarations
C11_Witness ==
  /\ pc = "done"
  /\ Len(functions) = 2
  /\ Len(associate) = 2
  /\ associate[1].functionName = N_add /\ associate[1].id = N_ADD
  /\ associate[2].functionName = N_f /\ associate[2].id = <<"F">>

(* ---- C12 ---- *)

\* the top-level custom enum declarations of that name that have a member
EnumDeclsNamed(name) ==
  {n \in DOMAIN sourceFile : /\ sourceFile[n].kind = "EnumDeclaration"
                             /\ sourceFile[n].parentIsSourceFile
                             /\ isCustomEnum(sourceFile[n])
                             /\ Len(sourceFile[n].members) > 0
                             /\ sourceFile[n].name = name}

EnumRecordsOf(name) == {k \in DOMAIN customEnums : customEnums[k].id = name}

\* the diagnostics about the enum of that name, with a code in `codes`
EnumErrorsOf(name, codes) ==
  {k \in DOMAIN AllErrors : AllErrors[k].code \in codes /\ AllErrors[k].arg = name}

EnumDiagnosticCodes ==
  {"EnumNameMissing", "EnumNameStart", "EnumNameInvalidCharacters", "EnumNameTooLong",
   "DuplicateEnumName", "UnknownEnumType", "EnumTypeMustMatchAnnotation",
   "EnumValueTypeInconsistent"}

\* C12 (as the code has it): every top-level custom function contributes one
\* record whatever its diagnostics.  A top-level custom enum with a member
\* contributes one record unless it received the diagnostic "Enum type must
\* match the enum type in annotation" or "Enum value type must be
\* consistent": those two drop the enum; the diagnostics of the name, of a
\* duplicate and of an unknown annotation do not.
C12_RecordsBesideDiagnostics ==
  pc = "done" =>
    /\ Len(functions) = Len(CustomFunctionDecls)
    /\ \A name \in ValidatedEnumNames :
         Cardinality(EnumRecordsOf(name)) =
           Cardinality(EnumDeclsNamed(name))
           - Cardinality(EnumErrorsOf(name, {"EnumTypeMustMatchAnnotation",
                                             "EnumValueTypeInconsistent"}))

\* a custom enum with the diagnostic of inconsistent values and no record
C12_Witness ==
  /\ pc = "done"
  /\ Len(sourceFile) = 1
  /\ EnumDeclsNamed(N_E) = {1}
  /\ EnumErrorsOf(N_E, {"EnumValueTypeInconsistent"}) # {}
  /\ customEnums = <<>>

\* C12 as stated: a custom function or non-empty custom enum that has
\* diagnostics still has its record
C12_AsStated ==
  pc = "done" =>
    /\ Len(functions) = Len(CustomFunctionDecls)
    /\ \A name \in ValidatedEnumNames :
         EnumErrorsOf(name, EnumDiagnosticCodes) # {} =>
           Cardinality(EnumRecordsOf(name)) = Cardinality(EnumDeclsNamed(name))

(* ---- C13 ---- *)

\* C13: in every emitted enum all member values have the kind the enum's
\* type names: numbers for "number", strings for "string".
C13_ValuesOfOneKind ==
  \A e \in DOMAIN customEnums :
    /\ customEnums[e].type \in {S_number, S_string}
    /\ \A m \in DOMAIN customEnums[e].values :
         /\ customEnums[e].type = S_number => customEnums[e].values[m].value.t = "number"
         /\ customEnums[e].type = S_string => customEnums[e].values[m].value.t = "string"

\* a string enum of three members, and a number enum mixing defaults and values
C13_Witness ==
  \E e \in DOMAIN customEnums :
    /\ customEnums[e].type = S_string
    /\ Len(customEnums[e].values) = 3
    /\ \A m \in 1..3 : customEnums[e].values[m].value = [t |-> "string", v |-> <<"a">>]

(* ---- C14 ---- *)

\* a result field that is written to the output: present and not undefined
ResultHas(result, field) == field \in DOMAIN result /\ result[field] # Undefined

\* the streaming branch left by one of its two early returns
LeftByStreamingError(i) ==
  Codes(FunctionExtra(i).errors)
    \cap {"StreamingHandlerNeedsSingleResultType", "StreamingFunctionShouldReturnVoid"} # {}

\* the streaming branch taken with a handler that has no structural type
OnDocStreamingPath(i) ==
  IsStreamingDecl(Decl(i)) /\ LastParameter(Decl(i)).type = NoType

\* C14 as stated: no emitted result descriptor, on any path, carries the
\* type any or the dimensionality scalar.
C14_AsStated ==
  \A i \in DOMAIN functions :
    /\ ~(ResultHas(functions[i].result, "type") /\ functions[i].result.type = S_any)
    /\ ~(ResultHas(functions[i].result, "dimensionality")
         /\ functions[i].result.dimensionality = S_scalar)

\* a streaming function with a non-void return type, emitted with the result
\* { dimensionality: "scalar", type: "any" }
C14_Witness ==
  \E i \in DOMAIN functions :
    /\ IsStreamingDecl(Decl(i))
    /\ Decl(i).type = NumberType
    /\ LastParameter(Decl(i)).type = StreamingHandlerOf(<<NumberType>>)
    /\ functions[i].result = defaultResultItem

\* what the code keeps: the defaults are omitted on every path but the two
\* early returns of the streaming branch
C14_OutsideEarlyReturns ==
  \A i \in DOMAIN functions :
    ~LeftByStreamingError(i) =>
      /\ ~(ResultHas(functions[i].result, "dimensionality")
           /\ functions[i].result.dimensionality = S_scalar)
      /\ ~OnDocStreamingPath(i) =>
           ~(ResultHas(functions[i].result, "type") /\ functions[i].result.type = S_any)

\* a handler documented as StreamingHandler<any> and without structural type:
\* the result is emitted with the type any
C14_DocPathKeepsAny ==
  \E i \in DOMAIN functions :
    /\ OnDocStreamingPath(i)
    /\ ResultHas(functions[i].result, "type")
    /\ functions[i].result.type = S_any

(* ---- C15 ---- *)

TopLevelFunctions ==
  {n \in DOMAIN sourceFile : /\ sourceFile[n].kind = "FunctionDeclaration"
                             /\ sourceFile[n].parentIsSourceFile}

\* the place in the file of the declaration of the i-th emitted function
PositionOf(i) ==
  CHOOSE n \in TopLevelFunctions :
    /\ isCustomFunction(sourceFile[n])
    /\ Cardinality({m \in TopLevelFunctions :
                      m <= n /\ isCustomFunction(sourceFile[m])}) = i

SameText(a, b) == toLocaleLowerCase(a) = toLocaleLowerCase(b)

DuplicateCodes ==
  {"DuplicateFunctionName", "DuplicateCustomFunctionName", "DuplicateCustomFunctionId"}

C15_EnumNameReused ==
  /\ pc = "done" /\ Len(functions) = 1 /\ Len(customEnums) = 1
  /\ functions[1].name = customEnums[1].id
  /\ AllErrors = <<>>

DeclaredKind(name) ==
  LET n == CHOOSE m \in EnumDeclsNamed(name) : \A k \in EnumDeclsNamed(name) : m <= k
  IN IF FirstIsNumber(sourceFile[n]) THEN S_number ELSE S_string

\* a reference by name to a top-level custom enum that is emitted
NamesCustomEnum(t) ==
  /\ isTypeReferenceNode(t)
  /\ EnumDeclsNamed(t.typeName) # {}
  /\ EnumRecordsOf(t.typeName) # {}

\* a reference by name to an enum without the custom tag
NamesBasicEnum(t) ==
  /\ isTypeReferenceNode(t)
  /\ \E n \in DOMAIN sourceFile : /\ sourceFile[n].kind = "EnumDeclaration"
                                  /\ ~isCustomEnum(sourceFile[n])
                                  /\ sourceFile[n].name = t.typeName

\* no diagnostic of the function is about the type of that name
NoTypeDiagnostic(i, name) ==
  \A k \in DOMAIN FunctionExtra(i).errors : FunctionExtra(i).errors[k].arg # name

C16_ReturnWitness ==
  /\ pc = "done" /\ Len(sourceFile) = 2
  /\ sourceFile[1].kind = "FunctionDeclaration"
  /\ sourceFile[2].kind = "EnumDeclaration" /\ sourceFile[2].name = N_E
  /\ Len(functions) = 1
  /\ NamesCustomEnum(sourceFile[1].type)
  /\ functions[1].result = [type |-> S_number]
  /\ NoTypeDiagnostic(1, N_E)

\* the function first, the untagged enum it names as parameter type after it
C16_BasicWitness ==
  /\ pc = "done" /\ Len(sourceFile) = 2
  /\ sourceFile[1].kind = "FunctionDeclaration"
  /\ sourceFile[2].kind = "EnumDeclaration" /\ sourceFile[2].name = N_Color
  /\ Len(functions) = 1 /\ Len(functions[1].parameters) = 1
  /\ NamesBasicEnum(sourceFile[1].parameters[1].type)
  /\ functions[1].parameters[1].type = S_any
  /\ NoTypeDiagnostic(1, N_Color)

(* ---- C17 ---- *)

\* a custom function of one parameter, with no return type of either kind
\* and no tag but @customfunction
HasOneTypedParameter(d) ==
  /\ d.tags = <<CustomFunctionTag>>
  /\ Len(d.parameters) = 1
  /\ d.parameters[1].type # NoType
  /\ d.parameters[1].jsDocType = NoType
  /\ d.type = NoType
  /\ d.jsDocReturnType = NoType
  /\ d.paramTags = <<>>

\* what C17 says of the parameter emitted for the type t: matrix exactly when
\* more than one wrapper, the type of the base, the diagnostics of the base
FullyUnwrapped(i, t) ==
  LET base == getParamType(InnermostType(t), basicEnums, customEnums)
      p == functions[i].parameters[1]
  IN /\ ("dimensionality" \in DOMAIN p /\ p.dimensionality = S_matrix)
          <=> NestingDepth(t) > 1
     /\ p.type = base.ptype.type
     /\ FunctionExtra(i).errors = base.errors

\* C17 as stated: whatever the mix and order of the wrappers T[] and Array<T>
\* around a base type, the depth is the number of wrappers, the type is that
\* of the base type, and the wrappers cause no diagnostic.
C17_AsStated ==
  \A i \in DOMAIN functions :
    (HasOneTypedParameter(Decl(i)) /\ Len(functions[i].parameters) = 1) =>
      FullyUnwrapped(i, Decl(i).parameters[1].type)

\* C17 for wrappers of one shape: all T[] or all Array<T>, every base type
\* and every depth up to MaxDepth
C17_OneShapeUnwrapped ==
  \A i \in DOMAIN functions :
    (HasOneTypedParameter(Decl(i)) /\ Len(functions[i].parameters) = 1) =>
      \A b \in BaseTypes : \A d \in 0..MaxDepth :
        Decl(i).parameters[1].type \in {Brackets(b, d), Generics(b, d)} =>
          FullyUnwrapped(i, Decl(i).parameters[1].type)

\* Array<number[]>: emitted without type and with a diagnostic about the type
C17_Witness ==
  \E i \in DOMAIN functions :
    /\ HasOneTypedParameter(Decl(i))
    /\ Decl(i).parameters[1].type = ArrayOf(ArrayTypeNode(NumberType))
    /\ Len(functions[i].parameters) = 1
    /\ functions[i].parameters[1].type = Undefined
    /\ "TypeDoesntMatchMappings" \in Codes(FunctionExtra(i).errors)

\* number[][] and Array<Array<number>>: matrix, of type number, no diagnostic
C17_OneShapeWitness ==
  \E i \in DOMAIN functions :
    /\ HasOneTypedParameter(Decl(i))
    /\ Decl(i).parameters[1].type = Generics(NumberType, 2)
    /\ functions[i].parameters[1].type = S_number
    /\ functions[i].parameters[1].dimensionality = S_matrix
    /\ FunctionExtra(i).errors = <<>>

(* ---- C18 ---- *)

\* the supported cell-value reference types: those of CELLVALUETYPE_MAPPINGS
\* that are not "unsupported"
IsSupportedCellValue(t) ==
  /\ isTypeReferenceNode(t)
  /\ CELLVALUETYPE_MAPPINGS(t.typeName) \notin {Undefined, S_unsupported}

\* the type node the result is resolved from, for a function that does not
\* stream: the doc return type when there is one, else the structural one,
\* a single Promise taken off
ReturnTypeNode(d) ==
  UnwrapPromise(IF d.jsDocReturnType # NoType THEN d.jsDocReturnType ELSE d.type)

\* C18 as stated: a return type that is a supported cell-value reference
\* type, bare or under a Promise, gives a result without type.
C18_AsStated ==
  \A i \in DOMAIN functions :
    (~IsStreamingDecl(Decl(i)) /\ IsSupportedCellValue(ReturnTypeNode(Decl(i)))) =>
      ~ResultHas(functions[i].result, "type")

\* Excel.BooleanCellValue as return type, emitted with the result type boolean
C18_Witness ==
  \E i \in DOMAIN functions :
    /\ ~IsStreamingDecl(Decl(i))
    /\ Decl(i).jsDocReturnType = NoType
    /\ Decl(i).type = TypeReferenceNode(CellValueName(<<"B","o","o","l","e","a","n">>), <<>>)
    /\ functions[i].result = [type |-> S_boolean]
    /\ FunctionExtra(i).errors = <<>>

\* what the code does: the result type of a cell-value return type is the
\* basic type the cell value maps to, omitted only when that is any
C18_BasicTypeKept ==
  \A i \in DOMAIN functions :
    (~IsStreamingDecl(Decl(i)) /\ IsSupportedCellValue(ReturnTypeNode(Decl(i)))) =>
      LET basic == CELLVALUETYPE_TO_BASICTYPE_MAPPINGS(
                     CELLVALUETYPE_MAPPINGS(ReturnTypeNode(Decl(i)).typeName))
      IN IF basic = S_any THEN DOMAIN functions[i].result = {}
         ELSE functions[i].result = [type |-> basic]

(* ---- C19 ---- *)

\* the @param tag of the last parameter of the i-th custom function
HandlerTag(i) ==
  Decl(i).paramTags[LastParamTag(Decl(i), LastParameter(Decl(i)).name)]

\* the array-bracket markers of its type expression {Outer<Inner...>}
Markers(i) == Count(HandlerTag(i).typeExpression, "[")

\* C19 (as the code has it): the descriptor of a doc annotation
\* {Outer<Inner...>} has dimensionality scalar when the inner text has exactly
\* one array-bracket marker, matrix when it has two or more, and none when it
\* has no marker; the result of a function streaming through such a handler
\* carries dimensionality matrix for two or more markers only.
C19_DocDimensionality ==
  \A i \in DOMAIN functions :
    OnDocStreamingPath(i) =>
      LET ptype == getJSDocParamsType(Decl(i), LastParameter(Decl(i)).name)
          n == Markers(i)
      IN /\ n = 0 => ptype.dimensionality = Undefined
         /\ n = 1 => ptype.dimensionality = S_scalar
         /\ n >= 2 => ptype.dimensionality = S_matrix
         /\ (ResultHas(functions[i].result, "dimensionality")
               /\ functions[i].result.dimensionality = S_matrix) <=> n >= 2
         /\ n < 2 => ~ResultHas(functions[i].result, "dimensionality")

\* {CustomFunctions.StreamingHandler<string[]>}: one marker, result of type
\* string without dimensionality
C19_Witness ==
  \E i \in DOMAIN functions :
    /\ OnDocStreamingPath(i)
    /\ Markers(i) = 1
    /\ functions[i].result = [type |-> S_string]

\* {CustomFunctions.StreamingHandler<string[][]>}: two markers, matrix
C19_MatrixWitness ==
  \E i \in DOMAIN functions :
    /\ OnDocStreamingPath(i)
    /\ Markers(i) = 2
    /\ functions[i].result = [dimensionality |-> S_matrix, type |-> S_string]

\* C19 as stated: matrix for exactly one marker, scalar otherwise
C19_AsStated ==
  \A i \in DOMAIN functions :
    OnDocStreamingPath(i) =>
      LET ptype == getJSDocParamsType(Decl(i), LastParameter(Decl(i)).name)
      IN IF Markers(i) = 1 THEN ptype.dimensionality = S_matrix
         ELSE ptype.dimensionality = S_scalar

(* ---- C20 ---- *)

HandlerTypeNames ==
  {StreamingInvocationName, StreamingHandlerName, OldStreamingHandlerName,
   CancelableHandlerName, CancelableInvocationName, InvocationName}

\* a last parameter with a structural type that is no handler type
HasNonHandlerType(d) ==
  /\ d.parameters # <<>>
  /\ LastParameter(d).type # NoType
  /\ ~(isTypeReferenceNode(LastParameter(d).type)
       /\ LastParameter(d).type.typeName \in HandlerTypeNames)

\* the doc type of the last parameter names a handler
HasHandlerDocType(d) ==
  DocTypeLower(LastParameter(d), d) \in
    TYPE_CUSTOM_FUNCTIONS_STREAMING \cup TYPE_CUSTOM_FUNCTION_CANCELABLE
    \cup {TYPE_CUSTOM_FUNCTION_INVOCATION}

\* C20 as stated: a last parameter with a structural type that is no handler
\* type is never taken for a handler, whatever its doc annotation: it stays
\* in the parameter list.
C20_AsStated ==
  \A i \in DOMAIN functions :
    HasNonHandlerType(Decl(i)) =>
      Len(functions[i].parameters) = Len(Decl(i).parameters)

\* f(x: number, h: number) with @param {CustomFunctions.StreamingHandler<number>} h:
\* h is taken for the streaming handler
C20_Witness ==
  \E i \in DOMAIN functions :
    /\ HasNonHandlerType(Decl(i))
    /\ LastParameter(Decl(i)).type = NumberType
    /\ DocTypeLower(LastParameter(Decl(i)), Decl(i)) = toLocaleLowerCase(StreamingHandlerName)
    /\ LastParameterExcluded(functions[i], Decl(i))
    /\ "stream" \in DOMAIN functions[i].options
    /\ "StreamingHandlerNeedsSingleResultType" \in Codes(FunctionExtra(i).errors)

\* what the code does: the last parameter is left out exactly when its doc
\* type or its structural type names a handler
C20_DocOrStructural ==
  \A i \in DOMAIN functions :
    Decl(i).parameters # <<>> =>
      (LastParameterExcluded(functions[i], Decl(i))
         <=> \/ HasHandlerDocType(Decl(i))
             \/ /\ isTypeReferenceNode(LastParameter(Decl(i)).type)
                /\ LastParameter(Decl(i)).type.typeName \in HandlerTypeNames)

(* ---- C21 ---- *)

\* whether the emitted record has that option
HasOption(i, flag) ==
  "options" \in DOMAIN functions[i] /\ flag \in DOMAIN functions[i].options

\* the options that conflict with linkedEntityLoadService, in the order they
\* are looked at, and the tag each diagnostic names
ConflictOrder ==
  <<"excludeFromAutoComplete", "volatile", "stream", "requiresAddress",
    "requiresParameterAddresses", "capturesCallingObject">>

ConflictTag ==
  <<EXCLUDEFROMAUTOCOMPLETE, VOLATILE, STREAMING, REQUIRESADDRESS,
    REQUIRESPARAMETERADDRESSES, CAPTURESCALLINGOBJECT>>

\* the places of the conflict diagnostics among the diagnostics of record i
ConflictErrors(i) ==
  {k \in DOMAIN FunctionExtra(i).errors :
     FunctionExtra(i).errors[k].code = "CannotBeUsedWithLinkedEntityLoadService"}

\* C21: a record gets a linkedEntityLoadService conflict diagnostic exactly
\* when it has the option linkedEntityLoadService and one of the six
\* conflicting options; it gets one only, naming the first of the six, in
\* their fixed order, that the record has.
C21_LinkedEntityConflict ==
  \A i \in DOMAIN functions :
    LET conflicts == {k \in DOMAIN ConflictOrder : HasOption(i, ConflictOrder[k])}
        errs == ConflictErrors(i)
    IN /\ errs # {} <=> (HasOption(i, "linkedEntityLoadService") /\ conflicts # {})
       /\ Cardinality(errs) <= 1
       /\ \A k \in errs :
            FunctionExtra(i).errors[k].arg =
              ConflictTag[CHOOSE c \in conflicts : \A d \in conflicts : c <= d]

\* linkedEntityLoadService with volatile and capturesCallingObject: one
\* diagnostic, naming volatile
C21_Witness ==
  \E i \in DOMAIN functions :
    /\ HasOption(i, "linkedEntityLoadService")
    /\ HasOption(i, "volatile")
    /\ HasOption(i, "capturesCallingObject")
    /\ ~HasOption(i, "excludeFromAutoComplete")
    /\ Cardinality(ConflictErrors(i)) = 1
    /\ \A k \in ConflictErrors(i) : FunctionExtra(i).errors[k].arg = VOLATILE

\* linkedEntityLoadService with cancelable only: no diagnostic
C21_NoConflictWitness ==
  \E i \in DOMAIN functions :
    /\ "options" \in DOMAIN functions[i]
    /\ DOMAIN functions[i].options = {"linkedEntityLoadService", "cancelable"}
    /\ FunctionExtra(i).errors = <<>>

(* ---- C22 ---- *)

\* the characters of ^[A-Za-z0-9._]*$
AllowedIdCharacters == Range(LowerAlpha) \cup Range(UpperAlpha) \cup Digits \cup {".", "_"}

HasForbiddenCharacter(id) == \E k \in DOMAIN id : id[k] \notin AllowedIdCharacters

\* C22 as stated: a custom function whose id is empty or has a character
\* outside A-Z, a-z, 0-9, '.', '_' gets the diagnostic of id validation, and
\* its name is validated and its record and association row are emitted all
\* the same.
C22_AsStated ==
  /\ pc = "done" => Len(functions) = Len(CustomFunctionDecls)
  /\ \A i \in DOMAIN functions :
       (functions[i].id = <<>> \/ HasForbiddenCharacter(functions[i].id)) =>
         /\ "IdInvalidCharacters" \in Codes(FunctionExtra(i).errors)
         /\ associate[i].id = functions[i].id

\* a custom function without declared name and without override: the id is
\* empty, the diagnostics are those of the name only
C22_Witness ==
  \E i \in DOMAIN functions :
    /\ functions[i].id = <<>>
    /\ functions[i].name = <<>>
    /\ Codes(FunctionExtra(i).errors) = {"FunctionNameMissing", "FunctionNameStart"}

\* what the code does: the id diagnostic is given exactly for a forbidden
\* character, so never for the empty id; whatever the id, the name is
\* validated and the record and its association row are emitted
C22_ForbiddenCharactersReported ==
  /\ pc = "done" => Len(functions) = Len(CustomFunctionDecls)
  /\ \A i \in DOMAIN functions :
       /\ "IdInvalidCharacters" \in Codes(FunctionExtra(i).errors)
            <=> HasForbiddenCharacter(functions[i].id)
       /\ "FunctionNameMissing" \in Codes(FunctionExtra(i).errors)
            <=> functions[i].name = <<>>
       /\ "FunctionNameStart" \in Codes(FunctionExtra(i).errors)
            <=> (functions[i].name = <<>> \/ ~IsLetter(functions[i].name[1]))
       /\ associate[i].id = functions[i].id

\* an id with a forbidden character: both the id and the name are reported
C22_ForbiddenWitness ==
  \E i \in DOMAIN functions :
    /\ HasForbiddenCharacter(functions[i].id)
    /\ {"IdInvalidCharacters", "FunctionNameStart"} \subseteq Codes(FunctionExtra(i).errors)

(* ---- C23 ---- *)

\* what parseTree has returned, in a state with pc = "done"
Returned ==
  [associate |-> associate, extras |-> extras, functions |-> functions,
   enums |-> customEnums]

IsNested(n) == ~n.parentIsSourceFile

\* the file without its nested declarations
WithoutNested(file) == SelectSeq(file, LAMBDA n : ~IsNested(n))

HasNested == \E n \in DOMAIN sourceFile : IsNested(sourceFile[n])

HasNestedBasicEnum ==
  \E n \in DOMAIN sourceFile : /\ IsNested(sourceFile[n])
                               /\ sourceFile[n].kind = "EnumDeclaration"
                               /\ ~isCustomEnum(sourceFile[n])

\* what parseTree returns is what the three passes compute
ReturnedIsParseTree ==
  /\ pc = "done" => Returned = parseTree(sourceFile).result
  /\ pc = "thrown" => parseTree(sourceFile).threw

\* C23 as stated: the functions, enums, associations and diagnostics of a
\* file are those of the file without its nested declarations.
C23_AsStated ==
  (pc = "done" /\ HasNested) => Returned = parseTree(WithoutNested(sourceFile)).result

\* f(x: E): Color followed by an enum Color nested in a body: no diagnostic
\* about Color, although the file without the nested enum has one
C23_Witness ==
  /\ pc = "done"
  /\ Len(sourceFile) = 2
  /\ sourceFile[1].kind = "FunctionDeclaration"
  /\ sourceFile[1].type = TypeReferenceNode(N_Color, <<>>)
  /\ sourceFile[2].kind = "EnumDeclaration" /\ IsNested(sourceFile[2])
  /\ sourceFile[2].name = N_Color
  /\ Len(functions) = 1
  /\ Error("UnsupportedType", N_Color) \notin Range(FunctionExtra(1).errors)
  /\ Error("UnsupportedType", N_Color)
       \in Range(parseTree(WithoutNested(sourceFile)).result.extras[1].errors)

\* what the code keeps: nested functions and nested custom enums are ignored
C23_NestedFunctionsAndCustomEnumsIgnored ==
  (pc = "done" /\ HasNested /\ ~HasNestedBasicEnum) =>
    Returned = parseTree(WithoutNested(sourceFile)).result

\* a nested custom function and a nested custom enum, and nothing emitted
C23_IgnoredWitness ==
  /\ pc = "done" /\ Len(sourceFile) = 2
  /\ sourceFile[1].kind = "FunctionDeclaration" /\ IsNested(sourceFile[1])
  /\ isCustomFunction(sourceFile[1])
  /\ sourceFile[2].kind = "EnumDeclaration" /\ IsNested(sourceFile[2])
  /\ isCustomEnum(sourceFile[2])
  /\ Returned = [associate |-> <<>>, extras |-> <<>>, functions |-> <<>>, enums |-> <<>>]


(* ---- C24 ---- *)

\* not a type reference and not one of the keywords number, string, boolean
IsOtherKind(node) ==
  /\ ~isTypeReferenceNode(node)
  /\ node.kind \notin {"NumberKeyword", "StringKeyword", "BooleanKeyword"}

\* the kinds TYPE_MAPPINGS sends to "any"
KindsOfAny ==
  {"AnyKeyword", "UnionType", "TupleType", "EnumKeyword", "ObjectKeyword",
   "VoidKeyword", "UnknownKeyword"}

\* the only parameter of function i is of type "any", with no diagnostic
ParameterIsAny(i) ==
  /\ functions[i].parameters[1].type = S_any
  /\ FunctionExtra(i).errors = <<>>

\* the only parameter of function i has no type, and the one diagnostic
ParameterIsUnmapped(i) ==
  /\ functions[i].parameters[1].type = Undefined
  /\ FunctionExtra(i).errors = <<Error("TypeDoesntMatchMappings", <<>>)>>

\* C24 as stated: a parameter type that after array stripping is neither a
\* type reference nor number, string or boolean is "any", with no diagnostic.
C24_AsStated ==
  \A i \in DOMAIN functions :
    (HasOneTypedParameter(Decl(i)) /\ Len(functions[i].parameters) = 1) =>
      (IsOtherKind(StripArray(Decl(i).parameters[1].type)) => ParameterIsAny(i))

\* C24, amended: after array stripping, a node of kind any, union, tuple,
\* object, void or unknown is "any" with no diagnostic; a node of another kind
\* that is no type reference and not number, string or boolean has no type
\* and the diagnostic "Type doesn't match mappings".
C24_MappedKindsAreAny ==
  \A i \in DOMAIN functions :
    (HasOneTypedParameter(Decl(i)) /\ Len(functions[i].parameters) = 1) =>
      /\ StripArray(Decl(i).parameters[1].type).kind \in KindsOfAny
           => ParameterIsAny(i)
      /\ (/\ IsOtherKind(StripArray(Decl(i).parameters[1].type))
          /\ StripArray(Decl(i).parameters[1].type).kind \notin KindsOfAny)
           => ParameterIsUnmapped(i)

\* x: never[] is emitted without a type and with the diagnostic
C24_Witness ==
  \E i \in DOMAIN functions :
    /\ HasOneTypedParameter(Decl(i))
    /\ Decl(i).parameters[1].type = ArrayTypeNode(KeywordType("NeverKeyword"))
    /\ Len(functions[i].parameters) = 1
    /\ ParameterIsUnmapped(i)

\* x: unknown[][] is "any", with no diagnostic
C24_AnyWitness ==
  \E i \in DOMAIN functions :
    /\ HasOneTypedParameter(Decl(i))
    /\ Decl(i).parameters[1].type
         = ArrayTypeNode(ArrayTypeNode(KeywordType("UnknownKeyword")))
    /\ Len(functions[i].parameters) = 1
    /\ ParameterIsAny(i)


(* ---- C26 ---- *)

\* a top-level function declaration without @customfunction
IsUntagged(n) ==
  /\ n.kind = "FunctionDeclaration"
  /\ n.parentIsSourceFile
  /\ ~isCustomFunction(n)

\* the file without its untagged top-level functions
WithoutUntagged(file) == SelectSeq(file, LAMBDA n : ~IsUntagged(n))

HasUntagged == \E n \in DOMAIN sourceFile : IsUntagged(sourceFile[n])

\* an untagged top-level function before the i-th emitted one, of the same
\* declared name up to case
UntaggedNamesakeBefore(i) ==
  \E n \in 1..(PositionOf(i) - 1) :
    /\ IsUntagged(sourceFile[n])
    /\ SameText(sourceFile[n].name, sourceFile[PositionOf(i)].name)

\* a diagnostics entry without its "Duplicate function name"
WithoutDeclaredDuplicate(extra) ==
  [extra EXCEPT !.errors = SelectSeq(extra.errors,
                                     LAMBDA e : e.code # "DuplicateFunctionName")]

\* the result differs from `other` in "Duplicate function name" at most
SameButDeclaredDuplicates(other) ==
  /\ functions = other.functions
  /\ associate = other.associate
  /\ customEnums = other.enums
  /\ Len(extras) = Len(other.extras)
  /\ \A e \in DOMAIN extras :
       WithoutDeclaredDuplicate(extras[e]) = WithoutDeclaredDuplicate(other.extras[e])

\* function i has "Duplicate function name" where `other` has it, and where
\* an untagged function of its name precedes it
DuplicatesFromUntagged(other) ==
  \A i \in DOMAIN functions :
    "DuplicateFunctionName" \in Codes(FunctionExtra(i).errors)
      <=> \/ "DuplicateFunctionName"
               \in Codes(other.extras[Len(other.extras) - Len(other.functions) + i].errors)
          \/ UntaggedNamesakeBefore(i)

C26_NoInfluenceWitness ==
  /\ pc = "done"
  /\ Len(sourceFile) = 2
  /\ isCustomFunction(sourceFile[1]) /\ sourceFile[1].name = N_add
  /\ IsUntagged(sourceFile[2]) /\ sourceFile[2].name = N_Add
  /\ Len(functions) = 1
  /\ Returned = parseTree(<<sourceFile[1]>>).result

-----------------------------------------------------------------------------
(* The rule load-object-before-read.  findLoadBeforeRead walks, for each    *)
(* variable of a scope, the references of that variable with a getFound and *)
(* a loadLocation of its own; the model follows one variable.  A reference  *)
(* is its identifier node: `range`, `name`, `parent` (the parent node) and  *)
(* `ancestors` (the types of the nodes from the parent up); `side` is the  *)
(* side of the enclosing assignment it is on.                               *)

NoNode == [type |-> "None"]     \* an absent node (undefined or null)

\* a call x.<callee>(...): getRange, getItemOrNullObject, load, ...
isGetFunction(node) ==
  node.type = "CallExpression" /\ node.callee \in {"getRange", "getItemOrNullObject"}

isGetOrNullObjectFunction(node) ==
  node.type = "CallExpression" /\ node.callee = "getItemOrNullObject"

isLoadCall(node) == node.type = "CallExpression" /\ node.callee = "load"

\* the property names an argument of load names
parsePropertiesArgument(argument) == argument.properties

\* the call a member expression is the callee of
findCallExpression(node) == node.call

\* the property a member expression reads; "" when it reads none
findPropertiesRead(node) ==
  IF node.type = "MemberExpression" /\ node.call = NoNode THEN node.property ELSE ""

isInsideWriteStatement(node) ==
  \E i \in DOMAIN node.ancestors : node.ancestors[i] = "AssignmentExpression"

hasBeenLoaded(node, loads, propertyName) ==
  /\ propertyName \in DOMAIN loads
  /\ node.range[2] > loads[propertyName]

\* propertyNames.forEach(loadLocation.set(propertyName, node.range[1]))
SetLoadLocation(loads, propertyNames, end) ==
  [p \in DOMAIN loads \cup Range(propertyNames) |->
     IF p \in Range(propertyNames) THEN end ELSE loads[p]]

\* the first argument of load, or "*" without it
LoadedNames(arguments, at) ==
  IF Len(arguments) >= at THEN parsePropertiesArgument(arguments[at]) ELSE <<"*">>

\* getFound = false, in case of reassignment
Reassigned(st) == [st EXCEPT !.getFound = FALSE]

\* the callback of variable.references.forEach, from the test of getFound on
\* (st is [getFound, loadLocation, reports])
TrackedReference(st, node, parent) ==
  IF ~st.getFound THEN st
  ELSE IF /\ parent.type = "MemberExpression"
          /\ findCallExpression(parent) # NoNode
          /\ isLoadCall(findCallExpression(parent))
  THEN [st EXCEPT !.loadLocation =
          SetLoadLocation(st.loadLocation,
                          LoadedNames(findCallExpression(parent).arguments, 1),
                          node.range[2])]
  ELSE IF /\ parent.type = "CallExpression"
          /\ isLoadCall(parent)
          /\ Len(parent.arguments) >= 1 /\ parent.arguments[1] = node.name
          /\ Len(parent.arguments) < 3
  THEN [st EXCEPT !.loadLocation =
          SetLoadLocation(st.loadLocation, LoadedNames(parent.arguments, 2),
                          node.range[2])]
  ELSE IF \/ findPropertiesRead(parent) = ""
          \/ hasBeenLoaded(node, st.loadLocation, findPropertiesRead(parent))
          \/ hasBeenLoaded(node, st.loadLocation, "*")
          \/ isInsideWriteStatement(node)
  THEN st
  ELSE [st EXCEPT !.reports =
          Append(st.reports, [node |-> node, messageId |-> "loadBeforeRead",
                              data |-> [name |-> node.name,
                                        loadValue |-> findPropertiesRead(parent)]])]

\* the callback of variable.references.forEach
VisitReference(st, node, parent) ==
  IF /\ parent.type = "VariableDeclarator"
     /\ parent.init # NoNode
     /\ isGetFunction(parent.init)
     /\ ~isGetOrNullObjectFunction(parent.init)
  THEN [st EXCEPT !.getFound = TRUE]
  ELSE IF /\ parent.type = "AssignmentExpression"
          /\ isGetFunction(parent.right)
          /\ ~isGetOrNullObjectFunction(parent.right)
  THEN [st EXCEPT !.getFound = TRUE]
  ELSE IF parent.type \in {"VariableDeclarator", "AssignmentExpression"}
  THEN TrackedReference(Reassigned(st), node, parent)
  ELSE TrackedReference(st, node, parent)

(* The references of a variable x *)

MaxReferences == 4   \* references of the variable

CallExpression(callee, arguments) ==
  [type |-> "CallExpression", callee |-> callee, arguments |-> arguments]

Literal(propertyNames) == [type |-> "Literal", properties |-> propertyNames]

Identifier(parent, ancestors) ==
  [name |-> "x", range |-> <<0, 0>>, parent |-> parent, ancestors |-> ancestors,
   side |-> "none"]

\* let x = <init>;   let x;
Declared(init) ==
  Identifier([type |-> "VariableDeclarator", init |-> init],
             <<"VariableDeclarator", "VariableDeclaration">>)

\* x = <right>;
Assigned(right) ==
  Identifier([type |-> "AssignmentExpression", right |-> right],
             <<"AssignmentExpression", "ExpressionStatement">>)

\* x.load(<arguments>);
MemberLoad(arguments) ==
  Identifier([type |-> "MemberExpression", property |-> "load",
              call |-> CallExpression("load", arguments)],
             <<"MemberExpression", "CallExpression", "ExpressionStatement">>)

\* context.load(x, <arguments>);
ContextLoad(arguments) ==
  Identifier(CallExpression("load", <<"x">> \o arguments),
             <<"CallExpression", "ExpressionStatement">>)

\* the ancestors of x in x.p as a statement, in x.p = 1 and in y = x.p
Around(side) ==
  IF side = "none" THEN <<"MemberExpression", "ExpressionStatement">>
  ELSE <<"MemberExpression", "AssignmentExpression", "ExpressionStatement">>

\* x.<property>, by the side of the assignment it is on
Member(property, side) ==
  [Identifier([type |-> "MemberExpression", property |-> property, call |-> NoNode],
              Around(side))
     EXCEPT !.side = side]

\* foo(x);
Passed ==
  Identifier(CallExpression("foo", <<"x">>), <<"CallExpression", "ExpressionStatement">>)

ReferenceShapes ==
  {Declared(i) : i \in {NoNode, CallExpression("getRange", <<>>),
                        CallExpression("getItemOrNullObject", <<>>)}}
  \cup {Assigned(r) : r \in {CallExpression("getRange", <<>>), CallExpression("foo", <<>>)}}
  \cup {MemberLoad(a) : a \in {<<>>, <<Literal(<<"p">>)>>}}
  \cup {ContextLoad(<<Literal(<<"p", "q">>)>>)}
  \cup {Member("p", s) : s \in {"none", "left", "right"}}
  \cup {Member("q", "none"), Passed}

\* the references are in source order: the k-th ends at 10 * k
Placed(shape, k) == [shape EXCEPT !.range = <<10 * k - 1, 10 * k>>]

\* findLoadBeforeRead visits the next reference of the variable, whatever
\* that reference is
FindLoadBeforeRead ==
  /\ refIdx <= MaxReferences
  /\ \E shape \in ReferenceShapes :
       /\ references' = Append(references, Placed(shape, refIdx))
       /\ LET st == VisitReference([getFound |-> getFound,
                                    loadLocation |-> loadLocation,
                                    reports |-> reports],
                                   Placed(shape, refIdx), shape.parent)
          IN /\ getFound' = st.getFound
             /\ loadLocation' = st.loadLocation
             /\ reports' = st.reports
  /\ refIdx' = refIdx + 1
  /\ UNCHANGED parseVars

RuleNext == FindLoadBeforeRead

\* parseTree is not run
NoParse ==
  /\ sourceFile = <<>>
  /\ pc = "done"
  /\ idx = 1
  /\ basicEnums = <<>>
  /\ customEnums = <<>>
  /\ functionNames = <<>>
  /\ metadataFunctionNames = <<>>
  /\ metadataFunctionIds = <<>>
  /\ metadataEnumIds = <<>>
  /\ associate = <<>>
  /\ functions = <<>>
  /\ extras = <<>>

RuleInit == NoRule /\ NoParse

RuleSpec == RuleInit /\ [][RuleNext]_vars


(* Properties of the rule.  They speak of the references visited so far. *)

Properties == {"p", "q"}

\* reference k declares or assigns the variable
IsAssignment(k) ==
  references[k].parent.type \in {"VariableDeclarator", "AssignmentExpression"}

\* reference k gives the variable the result of a get function that is no
\* get-or-null-object function
IsGetAssignment(k) ==
  \/ /\ references[k].parent.type = "VariableDeclarator"
     /\ isGetFunction(references[k].parent.init)
     /\ ~isGetOrNullObjectFunction(references[k].parent.init)
  \/ /\ references[k].parent.type = "AssignmentExpression"
     /\ isGetFunction(references[k].parent.right)
     /\ ~isGetOrNullObjectFunction(references[k].parent.right)

\* the last declaration or assignment before reference k; 0 without one
LastAssignment(k) ==
  IF \E j \in 1..(k - 1) : IsAssignment(j)
  THEN CHOOSE j \in 1..(k - 1) :
         IsAssignment(j) /\ \A i \in (j + 1)..(k - 1) : ~IsAssignment(i)
  ELSE 0

\* at reference k the variable holds the result of a get function
Tracked(k) == LastAssignment(k) > 0 /\ IsGetAssignment(LastAssignment(k))

\* the names reference k loads: x.load(...) or context.load(x, ...)
LoadsOf(k) ==
  IF /\ references[k].parent.type = "MemberExpression"
     /\ isLoadCall(references[k].parent.call)
  THEN Range(LoadedNames(references[k].parent.call.arguments, 1))
  ELSE IF /\ references[k].parent.type = "CallExpression"
          /\ isLoadCall(references[k].parent)
  THEN Range(LoadedNames(references[k].parent.arguments, 2))
  ELSE {}

\* reference k is an explicit load of p or of "*"
LoadsProperty(k, p) == p \in LoadsOf(k) \/ "*" \in LoadsOf(k)

\* reference k is x.p, not the target of an assignment
ReadsProperty(k, p) ==
  /\ references[k].parent.type = "MemberExpression"
  /\ references[k].parent.call = NoNode
  /\ references[k].parent.property = p
  /\ references[k].side # "left"

\* reference k is x.p = ...
WritesProperty(k) ==
  /\ references[k].parent.type = "MemberExpression"
  /\ references[k].parent.call = NoNode
  /\ references[k].side = "left"

\* reference k was reported, for the property p
Reported(k, p) ==
  \E i \in DOMAIN reports :
    /\ reports[i].node = references[k]
    /\ reports[i].messageId = "loadBeforeRead"
    /\ reports[i].data = [name |-> references[k].name, loadValue |-> p]

\* the reports of the rule, exactly: a read of p outside every assignment
\* expression, of a tracked variable, with no load of p or "*" at an earlier
\* reference at which the variable was tracked
ReportsAreLoadBeforeRead ==
  /\ Len(reports) <= Len(references)
  /\ \A i \in DOMAIN reports : \E k \in DOMAIN references : reports[i].node = references[k]
  /\ \A k \in DOMAIN references : \A p \in Properties :
       Reported(k, p) <=>
         /\ Tracked(k)
         /\ ReadsProperty(k, p)
         /\ references[k].side = "none"
         /\ ~\E j \in 1..(k - 1) : Tracked(j) /\ LoadsProperty(j, p)

(* ---- C25 ---- *)

\* C25 as stated: a reference that reads property p of a variable holding the
\* result of a get function is reported when no load of p or "*" comes
\* earlier, and is not reported when one comes earlier since the variable was
\* assigned; a reference that writes the property is not reported.
C25_AsStated ==
  \A k \in DOMAIN references :
    /\ \A p \in Properties :
         (Tracked(k) /\ ReadsProperty(k, p)) =>
           /\ (~\E j \in 1..(k - 1) : LoadsProperty(j, p)) => Reported(k, p)
           /\ (\E j \in (LastAssignment(k) + 1)..(k - 1) : LoadsProperty(j, p))
                => ~Reported(k, p)
    /\ WritesProperty(k) => \A p \in Properties : ~Reported(k, p)

\* let x = s.getRange(); y = x.p;  and no report
C25_Witness ==
  /\ Len(references) = 2
  /\ IsGetAssignment(1)
  /\ ReadsProperty(2, "p") /\ references[2].side = "right"
  /\ isInsideWriteStatement(references[2])
  /\ reports = <<>>

\* C25 for the reads outside every assignment expression
C25_ReadsOutsideAssignments ==
  \A k \in DOMAIN references :
    /\ \A p \in Properties :
         (Tracked(k) /\ ReadsProperty(k, p) /\ references[k].side = "none") =>
           /\ (~\E j \in 1..(k - 1) : LoadsProperty(j, p)) => Reported(k, p)
           /\ (\E j \in (LastAssignment(k) + 1)..(k - 1) : LoadsProperty(j, p))
                => ~Reported(k, p)
    /\ WritesProperty(k) => \A p \in Properties : ~Reported(k, p)

\* let x = s.getRange(); x.q; x.load("p"); x.p;  x.q alone is reported
C25_ReportedWitness ==
  /\ Len(references) = 4
  /\ IsGetAssignment(1)
  /\ ReadsProperty(2, "q") /\ references[2].side = "none"
  /\ LoadsOf(3) = {"p"}
  /\ ReadsProperty(4, "p") /\ references[4].side = "none"
  /\ Len(reports) = 1 /\ Reported(2, "q")

(* ---- C27 ---- *)

\* C27 as stated: after a reassignment x = <get call>, a read of p outside
\* every assignment expression, with no load of p or "*" since the
\* reassignment, is reported, whatever was loaded before the reassignment.
C27_AsStated ==
  \A k \in DOMAIN references : \A p \in Properties :
    (/\ Tracked(k)
     /\ references[LastAssignment(k)].parent.type = "AssignmentExpression"
     /\ ReadsProperty(k, p) /\ references[k].side = "none"
     /\ ~\E j \in (LastAssignment(k) + 1)..(k - 1) : LoadsProperty(j, p))
      => Reported(k, p)

\* let x = s.getRange(); x.load("p"); x = s.getRange(); x.p;  and no report
C27_Witness ==
  /\ Len(references) = 4
  /\ IsGetAssignment(1)
  /\ LoadsOf(2) = {"p"}
  /\ IsGetAssignment(3) /\ references[3].parent.type = "AssignmentExpression"
  /\ ReadsProperty(4, "p") /\ references[4].side = "none"
  /\ "p" \in DOMAIN loadLocation /\ loadLocation["p"] = references[2].range[2]
  /\ reports = <<>>

\* what the code keeps of C27: a read after a reassignment with no load of p
\* or "*" at any earlier reference is reported
C27_ReportedWithoutAnyLoad ==
  \A k \in DOMAIN references : \A p \in Properties :
    (/\ Tracked(k)
     /\ references[LastAssignment(k)].parent.type = "AssignmentExpression"
     /\ ReadsProperty(k, p) /\ references[k].side = "none"
     /\ ~\E j \in 1..(k - 1) : LoadsProperty(j, p))
      => Reported(k, p)

====
